---------------------------- MODULE Spec2Model ----------------------------
(***************************************************************************)
(* Risk-managed order execution engine: the order monitor                  *)
(* (improved_order_manager.py), the capital allocator                      *)
(* (capital_allocator.py) and the trade cycle                              *)
(* (enhanced_realtime_trader.py).                                          *)
(*                                                                         *)
(* Time is counted in ticks of half a second, so that the default polling  *)
(* interval of 0.5 s is one tick, the default timeout of 60 s is 120 ticks *)
(* and the backoff cap of 5 s is 10 ticks.  `now` is the value of          *)
(* time.time() - start_time.                                               *)
(***************************************************************************)
EXTENDS Integers, Sequences, FiniteSets, TLC

VARIABLES
    \* ---- ImprovedOrderManager object ----
    pending_orders,         \* self.pending_orders (set of order ids)
    completed_orders,       \* self.completed_orders (set of order ids)
    \* ---- one call of monitor_order ----
    pc,                     \* "idle" | "loop" | "final" | "returned"
    order_id,               \* argument order_id
    timeout,                \* local timeout (ticks), after `timeout or self.order_timeout`
    check_interval,         \* argument check_interval (ticks)
    now,                    \* time.time() - start_time (ticks)
    consecutive_failures,   \* local consecutive_failures
    retry_delay,            \* local retry_delay (ticks): what the last sleep was asked
    elapsed,                \* local elapsed, set when the loop is left at the deadline
    result,                 \* the returned dict
    \* ---- history of the call (observers only, never read by the program) ----
    calls,                  \* number of upbit.get_order calls made (counted up to CallCap)
    sleeps,                 \* number of time.sleep calls made (counted up to CallCap)
    final_calls,            \* number of get_order calls made after the loop
    all_sleeps_ci,          \* every sleep so far asked for exactly check_interval
    polled,                 \* common kind of the answers of the polls that went on polling
    fail_run,               \* polls in a row that ended in the except clause (up to CallCap)
    seen_malformed,         \* some get_order answer was None or had no 'state'
    lastResp,               \* the answer of the call that ended the monitoring
    \* ---- one call of CapitalAllocator.allocate_capital_dynamically ----
    apc,                    \* "ready" | "returned"
    available_krw,          \* argument available_krw (thousands of KRW)
    buy_signals,            \* argument buy_signals (sequence of signal records)
    allocations,            \* the returned dict: ticker -> amount
    \* ---- one trade cycle of run_enhanced_trading_system ----
    tpc,                    \* position in the cycle
    pending_signals,        \* notion_manager.get_pending_signals()
    status,                 \* the Status of each pending signal in the signal database
    cursor,                 \* index in pending_signals of the signal of the running loop
    placed,                 \* history: the market orders sent to the exchange, in order
    handled,                \* history: signals whose execute_* call has returned
    monitored,              \* history: placed orders whose monitor_order has returned
    \* ---- one risk monitoring cycle of ATRRiskManager.monitor_positions ----
    rpc,                    \* position in the cycle
    positions,              \* get_current_positions(), in dict order
    rcursor,                \* index in positions of the position of the for loop
    portfolio_value,        \* local portfolio_value of monitor_positions
    risk_levels,            \* risk_data of each position handled so far
    fetched,                \* history: how the data fetches of each position ended
    risk_orders,            \* history: the execute_market_sell calls of the cycle, in order
    risk_alerts,            \* local risk_alerts: set of <<position, kind>>
    risk_result,            \* the dict monitor_positions returns
    \* ---- single calls, each a record ----
    executor,               \* one call of execute_market_sell or execute_market_buy
    retry,                  \* one call of cancel_order or get_order_status
    batch,                  \* one call of wait_for_orders_completion
    atr_calc                \* one call of calculate_atr on a frame of daily bars

mvars == <<pending_orders, completed_orders, pc, order_id, timeout, check_interval,
           now, consecutive_failures, retry_delay, elapsed, result,
           calls, sleeps, final_calls, all_sleeps_ci, polled, fail_run,
           seen_malformed, lastResp>>

avars == <<apc, available_krw, buy_signals, allocations>>

tvars == <<tpc, pending_signals, status, cursor, placed, handled, monitored>>

rvars == <<rpc, positions, rcursor, portfolio_value, risk_levels, fetched,
           risk_orders, risk_alerts, risk_result>>

xvars == <<executor, retry, batch, atr_calc>>

vars == <<mvars, avars, tvars, rvars, xvars>>

-----------------------------------------------------------------------------
(* Bounds of the model *)
MaxTimeout == 6         \* timeouts handed to monitor_order: 1..MaxTimeout ticks (0: None)
MaxInterval == 2        \* check_interval: 1..MaxInterval ticks
MaxJitter == 1          \* a poll (get_order, then sleep(d)) takes d..d+MaxJitter ticks
CallCap == 7            \* calls and sleeps are counted exactly below CallCap

MaxOrders == 2           \* order ids handed to monitor_order: 1..MaxOrders
OrderIds == 1..MaxOrders

(* Program constants, in ticks *)
order_timeout == 120    \* self.order_timeout = 60
backoff_cap == 10       \* the 5 of min(check_interval * (2 ** consecutive_failures), 5)
max_failures == 5       \* max_failures = 5

Min(a, b) == IF a <= b THEN a ELSE b
Max(a, b) == IF a >= b THEN a ELSE b

-----------------------------------------------------------------------------
(* What upbit.get_order can do: return a record with a state ('watch' stands
   for any state other than done, cancel and wait), return None, return a
   record without a 'state' key, or raise. *)
States == {"wait", "done", "cancel", "watch"}
Malformed == {"none", "nostate"}
Responses == States \cup Malformed \cup {"raise"}

NoResult == [state |-> "none", origin |-> "none"]
Record(s) == [state |-> s, origin |-> "exchange"]
ErrorResult == [state |-> "error", origin |-> "monitor"]
TimeoutResult == [state |-> "timeout", origin |-> "monitor"]

(* history: the kind of an answer, and the common kind of a run of answers *)
Kind(r) == CASE r \in Malformed -> "malformed"
             [] r \in {"wait", "raise"} -> r
             [] OTHER -> "mixed"
Merge(p, r) == IF p = "none_yet" \/ p = Kind(r) THEN Kind(r) ELSE "mixed"

Count(n) == Min(n + 1, CallCap)

(* a get_order call inside the loop after which polling goes on *)
Polled(r) ==
    /\ calls' = Count(calls)
    /\ polled' = Merge(polled, r)
    /\ fail_run' = IF r \in States THEN 0 ELSE Count(fail_run)
    /\ seen_malformed' = (seen_malformed \/ r \in Malformed)
    /\ UNCHANGED <<lastResp, final_calls>>

(* the get_order call after which monitor_order returns *)
Ended(r, final) ==
    /\ calls' = Count(calls)
    /\ lastResp' = r
    /\ final_calls' = final_calls + final
    /\ fail_run' = IF r \in States THEN 0 ELSE Count(fail_run)
    /\ seen_malformed' = (seen_malformed \/ r \in Malformed)
    /\ UNCHANGED <<polled, sleeps, all_sleeps_ci, now>>

-----------------------------------------------------------------------------
(* ImprovedOrderManager.__init__ *)
ManagerInit ==
    /\ pending_orders = {}
    /\ completed_orders = {}

MonitorIdle ==
    /\ pc = "idle"
    /\ order_id = 0
    /\ timeout = 0
    /\ check_interval = 1
    /\ now = 0
    /\ consecutive_failures = 0
    /\ retry_delay = 0
    /\ elapsed = 0
    /\ result = NoResult
    /\ calls = 0
    /\ sleeps = 0
    /\ final_calls = 0
    /\ all_sleeps_ci = TRUE
    /\ polled = "none_yet"
    /\ fail_run = 0
    /\ seen_malformed = FALSE
    /\ lastResp = "none_yet"

(* timeout = timeout or self.order_timeout: None and 0 both give the default *)
EffectiveTimeout(t) == IF t = 0 THEN order_timeout ELSE t

(* retry_delay = min(check_interval * (2 ** consecutive_failures), 5) *)
Backoff(ci, n) == Min(ci * (2 ^ n), backoff_cap)

(* the clock advance of time.sleep(d) and of the get_order before it: at least d *)
SleepAdvance_frozen(d, jitter) == 0
SleepAdvance(d, jitter) == d + jitter

(* a counter that a malformed answer does not reset *)
FailuresAfter_counted(r, n) == n + 1

(* consecutive_failures after the except clause: get_order returning resets
   the counter (line 39) before order['state'] raises on a malformed answer *)
FailuresAfter(r, n) == (IF r = "raise" THEN n ELSE 0) + 1

(* consecutive_failures after a poll whose try block ran to its end *)
FailuresReset == 0

(* if consecutive_failures >= max_failures *)
AtCeiling_gt(n) == n > max_failures
AtCeiling(n) == n >= max_failures

(* the test of the while loop *)
LoopTest == now < timeout

Sleep(d, jitter) ==
    /\ now' = now + SleepAdvance(d, jitter)
    /\ sleeps' = Count(sleeps)
    /\ all_sleeps_ci' = (all_sleeps_ci /\ d = check_interval)

(* monitor_order entry: lines 25-34 *)
MonitorCall(o, t, ci) ==
    /\ pc = "idle"
    /\ pc' = "loop"
    /\ order_id' = o
    /\ timeout' = EffectiveTimeout(t)
    /\ check_interval' = ci
    /\ now' = 0
    /\ consecutive_failures' = 0
    /\ retry_delay' = ci
    /\ UNCHANGED <<pending_orders, completed_orders, elapsed, result, calls, sleeps,
                   final_calls, all_sleeps_ci, polled, fail_run, seen_malformed,
                   lastResp>>

(* 'done' returned only after the sleep at the end of the loop body *)
PollDone_sleeps ==
    /\ pc = "loop" /\ LoopTest
    /\ calls' = Count(calls) /\ lastResp' = "done" /\ fail_run' = 0
    /\ UNCHANGED <<polled, seen_malformed, final_calls>>
    /\ consecutive_failures' = 0
    /\ completed_orders' = completed_orders \cup {order_id}
    /\ pending_orders' = pending_orders \ {order_id}
    /\ result' = Record("done")
    /\ pc' = "returned"
    /\ \E jitter \in 0..MaxJitter : Sleep(check_interval, jitter)
    /\ UNCHANGED <<order_id, timeout, check_interval, retry_delay, elapsed>>

(* loop poll answering 'done': lines 38-52 *)
PollDone ==
    /\ pc = "loop" /\ LoopTest
    /\ Ended("done", 0)
    /\ consecutive_failures' = FailuresReset
    /\ completed_orders' = completed_orders \cup {order_id}
    /\ pending_orders' = pending_orders \ {order_id}
    /\ result' = Record("done")
    /\ pc' = "returned"
    /\ UNCHANGED <<order_id, timeout, check_interval, retry_delay, elapsed>>

(* 'cancel' taken for an open state: polling goes on *)
PollCancel_goes_on ==
    /\ pc = "loop" /\ LoopTest
    /\ calls' = Count(calls) /\ lastResp' = "cancel" /\ fail_run' = 0
    /\ UNCHANGED <<polled, seen_malformed, final_calls>>
    /\ consecutive_failures' = 0
    /\ retry_delay' = check_interval
    /\ \E jitter \in 0..MaxJitter : Sleep(check_interval, jitter)
    /\ UNCHANGED <<pending_orders, completed_orders, pc, order_id, timeout,
                   check_interval, elapsed, result>>

(* loop poll answering 'cancel': lines 38-47, 54-56 *)
PollCancel ==
    /\ pc = "loop" /\ LoopTest
    /\ Ended("cancel", 0)
    /\ consecutive_failures' = FailuresReset
    /\ result' = Record("cancel")
    /\ pc' = "returned"
    /\ UNCHANGED <<pending_orders, completed_orders, order_id, timeout, check_interval,
                   retry_delay, elapsed>>

(* loop poll answering an open state ('wait', or any other state): lines 38-47, 59-71 *)
PollOpen(r, jitter) ==
    /\ pc = "loop" /\ LoopTest
    /\ r \in States \ {"done", "cancel"}
    /\ Polled(r)
    /\ consecutive_failures' = FailuresReset
    /\ retry_delay' = check_interval
    /\ Sleep(retry_delay', jitter)
    /\ UNCHANGED <<pending_orders, completed_orders, pc, order_id, timeout,
                   check_interval, elapsed, result>>

(* loop poll ending in the except clause, below the ceiling: lines 73-85 *)
PollFailRetry(r, jitter) ==
    /\ pc = "loop" /\ LoopTest
    /\ r \in Malformed \cup {"raise"}
    /\ ~AtCeiling(FailuresAfter(r, consecutive_failures))
    /\ Polled(r)
    /\ consecutive_failures' = FailuresAfter(r, consecutive_failures)
    /\ retry_delay' = Backoff(check_interval, consecutive_failures')
    /\ Sleep(retry_delay', jitter)
    /\ UNCHANGED <<pending_orders, completed_orders, pc, order_id, timeout,
                   check_interval, elapsed, result>>

(* loop poll ending in the except clause, at the ceiling: lines 73-83 *)
PollFailAbandon(r) ==
    /\ pc = "loop" /\ LoopTest
    /\ r \in Malformed \cup {"raise"}
    /\ AtCeiling(FailuresAfter(r, consecutive_failures))
    /\ Ended(r, 0)
    /\ consecutive_failures' = FailuresAfter(r, consecutive_failures)
    /\ retry_delay' = Backoff(check_interval, consecutive_failures')
    /\ result' = ErrorResult
    /\ pc' = "returned"
    /\ UNCHANGED <<pending_orders, completed_orders, order_id, timeout,
                   check_interval, elapsed>>

(* the while test fails: lines 36, 87-89 *)
LoopExit ==
    /\ pc = "loop" /\ ~LoopTest
    /\ elapsed' = now
    /\ pc' = "final"
    /\ UNCHANGED <<pending_orders, completed_orders, order_id, timeout, check_interval,
                   now, consecutive_failures, retry_delay, result,
                   calls, sleeps, final_calls, all_sleeps_ci, polled, fail_run,
                   seen_malformed, lastResp>>

FinalResult_late_lost(r) == IF r \in States \ {"done"} THEN Record(r) ELSE TimeoutResult

(* what the last status check returns: lines 92-103.  A record with a state is
   returned as it is, whatever the state; None, a record without a state (its
   KeyError is caught) and an exception give the synthesized timeout. *)
FinalResult(r) == IF r \in States THEN Record(r) ELSE TimeoutResult

(* a last status check that records an order found done *)
FinalCheck_records(r) ==
    /\ pc = "final"
    /\ Ended(r, 1)
    /\ result' = FinalResult(r)
    /\ pc' = "returned"
    /\ completed_orders' = IF r = "done" THEN completed_orders \cup {order_id}
                           ELSE completed_orders
    /\ UNCHANGED <<pending_orders, order_id, timeout, check_interval,
                   consecutive_failures, retry_delay, elapsed>>

(* the last status check: lines 91-103 *)
FinalCheck(r) ==
    /\ pc = "final"
    /\ Ended(r, 1)
    /\ result' = FinalResult(r)
    /\ pc' = "returned"
    /\ UNCHANGED <<pending_orders, completed_orders, order_id, timeout, check_interval,
                   consecutive_failures, retry_delay, elapsed>>

Jitters == 0..MaxJitter

-----------------------------------------------------------------------------
(***************************************************************************)
(* CapitalAllocator (capital_allocator.py).                                *)
(*                                                                         *)
(* Money is counted in thousands of KRW, so the minimum order size of      *)
(* 5,000 KRW is 5.  The ratios 0.02 and 0.6 are percentages, and the       *)
(* arithmetic is exact: a capital is an integer number of 1/10000 of a     *)
(* thousand KRW, an amount is a fraction num/den of that unit.             *)
(***************************************************************************)
min_order_size == 5         \* self.min_order_size = 5000
reserve_ratio == 2          \* self.reserve_ratio = 0.02
momentum_capital_ratio == 60    \* self.momentum_capital_ratio = 0.6

Unit == 100 * 100           \* capitals per thousand KRW

MaxSignals == 3             \* buy_signals has at most MaxSignals entries
Tickers == {"A", "B", "C"}
Scores == {0, 10, 20, 30}
Budgets == {0, 5, 6, 10, 13, 26, 1000}

(* a signal dict; the momentum_score of a regular signal is never read *)
Signals ==
    {s \in [ticker : Tickers, is_momentum : BOOLEAN, momentum_score : Scores] :
        ~s.is_momentum => s.momentum_score = 0}

SignalLists == UNION {[1..n -> Signals] : n \in 0..MaxSignals}

(* an amount: the fraction n/d in lowest terms *)
RECURSIVE GCD(_, _)
GCD(a, b) == IF b = 0 THEN a ELSE GCD(b, a % b)
Amount(n, d) == [num |-> n \div GCD(n, d), den |-> d \div GCD(n, d)]
NoAllocations == [t \in {} |-> Amount(0, 1)]

IsMomentum(s) == s.is_momentum
IsRegular(s) == ~s.is_momentum
momentum_signals(bs) == SelectSeq(bs, IsMomentum)
regular_signals(bs) == SelectSeq(bs, IsRegular)

(* tradeable_capital = available_krw * (1 - self.reserve_ratio), in 1/100 *)
tradeable_capital(krw) == krw * (100 - reserve_ratio)

(* the capital split, lines 27-35, in 1/10000 *)
momentum_capital_whole(krw, bs) ==
    IF momentum_signals(bs) # <<>> THEN tradeable_capital(krw) * 100 ELSE 0
momentum_capital(krw, bs) ==
    IF momentum_signals(bs) # <<>> /\ regular_signals(bs) # <<>>
    THEN tradeable_capital(krw) * momentum_capital_ratio
    ELSE IF momentum_signals(bs) # <<>> THEN tradeable_capital(krw) * 100
    ELSE 0

(* 40% to the regular group even when it is alone *)
regular_capital_fixed(krw, bs) ==
    IF regular_signals(bs) # <<>>
    THEN tradeable_capital(krw) * (100 - momentum_capital_ratio) ELSE 0

regular_capital(krw, bs) ==
    IF momentum_signals(bs) # <<>> /\ regular_signals(bs) # <<>>
    THEN tradeable_capital(krw) * (100 - momentum_capital_ratio)
    ELSE IF momentum_signals(bs) # <<>> THEN 0
    ELSE tradeable_capital(krw) * 100

(* total_score = sum(s.get('momentum_score', 1) for s in momentum_signals) *)
RECURSIVE total_score(_)
total_score(ms) ==
    IF ms = <<>> THEN 0 ELSE Head(ms).momentum_score + total_score(Tail(ms))

(* equal weights whatever the scores *)
momentum_allocation_equal(capital, s, ms) == Amount(capital, Len(ms))

(* allocation = momentum_capital * weight, lines 45-47 *)
momentum_allocation(capital, s, ms) ==
    IF total_score(ms) > 0
    THEN Amount(capital * s.momentum_score, total_score(ms))
    ELSE Amount(capital, Len(ms))

(* a regular pool too small to be shared is given whole to each signal *)
equal_allocation_redistributed(capital, rs) ==
    IF capital >= min_order_size * Unit * Len(rs)
    THEN Amount(capital, Len(rs)) ELSE Amount(capital, 1)

(* equal_allocation = regular_capital / len(regular_signals), line 54 *)
equal_allocation(capital, rs) == Amount(capital, Len(rs))

(* allocation >= self.min_order_size *)
MeetsMinimum_positive(a) == a.num > 0
MeetsMinimum(a) == a.num >= min_order_size * Unit * a.den

(* allocations[ticker] = allocation, when it meets the minimum *)
Put(allocs, t, a) ==
    IF MeetsMinimum(a)
    THEN [x \in DOMAIN allocs \cup {t} |-> IF x = t THEN a ELSE allocs[x]]
    ELSE allocs

(* the loop over momentum_signals, lines 43-50 *)
RECURSIVE AllocateMomentum(_, _, _, _)
AllocateMomentum(allocs, capital, todo, ms) ==
    IF todo = <<>> THEN allocs
    ELSE AllocateMomentum(
            Put(allocs, Head(todo).ticker, momentum_allocation(capital, Head(todo), ms)),
            capital, Tail(todo), ms)

(* the loop over regular_signals left out *)
AllocateRegular_skipped(allocs, capital, todo, rs) == allocs

(* the loop over regular_signals, lines 56-60 *)
RECURSIVE AllocateRegular(_, _, _, _)
AllocateRegular(allocs, capital, todo, rs) ==
    IF todo = <<>> THEN allocs
    ELSE AllocateRegular(
            Put(allocs, Head(todo).ticker, equal_allocation(capital, rs)),
            capital, Tail(todo), rs)

(* allocate_capital_dynamically, lines 11-66.  With numeric scores no
   statement of the try block raises: both divisions are guarded. *)
allocate_capital_dynamically(krw, bs) ==
    IF bs = <<>> THEN NoAllocations
    ELSE
        LET ms == momentum_signals(bs)
            rs == regular_signals(bs)
            mc == momentum_capital(krw, bs)
            rc == regular_capital(krw, bs)
            afterMomentum ==
                IF ms # <<>> /\ mc > 0
                THEN AllocateMomentum(NoAllocations, mc, ms, ms)
                ELSE NoAllocations
        IN  IF rs # <<>> /\ rc > 0
            THEN AllocateRegular(afterMomentum, rc, rs, rs)
            ELSE afterMomentum

AllocIdle ==
    /\ apc = "idle"
    /\ available_krw = 0
    /\ buy_signals = <<>>
    /\ allocations = NoAllocations

(* the arguments of a call *)
AllocInputs ==
    /\ apc = "ready"
    /\ available_krw \in Budgets
    /\ buy_signals \in SignalLists
    /\ allocations = NoAllocations

Allocate ==
    /\ apc = "ready"
    /\ allocations' = allocate_capital_dynamically(available_krw, buy_signals)
    /\ apc' = "returned"
    /\ UNCHANGED <<available_krw, buy_signals>>

AllocNext == Allocate /\ UNCHANGED <<mvars, tvars, rvars, xvars>>

-----------------------------------------------------------------------------
(***************************************************************************)
(* The trade cycle: step 6 of run_enhanced_trading_system                  *)
(* (enhanced_realtime_trader.py, lines 556-877) with                       *)
(* execute_sell_with_monitoring and execute_buy_with_amount.               *)
(* monitor_order is taken by its result: the states it can return are      *)
(* those of the monitor above.                                             *)
(***************************************************************************)
MaxPending == 3             \* pending_signals has at most MaxPending entries
TradeTickers == {"A", "B"}
TradeScores == {1, 3}
Balances == {0, 13, 1000}   \* what upbit.get_balance("KRW") can answer

PendingSignals ==
    {s \in [signal : {"SELL", "BUY", "HOLD"}, ticker : TradeTickers,
            is_momentum : BOOLEAN, momentum_score : TradeScores \cup {0}] :
        /\ s.signal # "BUY" => s.ticker = "A"    \* the ticker matters to the allocation only
        /\ s.is_momentum => (s.signal = "BUY" /\ s.momentum_score # 0)
        /\ ~s.is_momentum => s.momentum_score = 0}

PendingLists == UNION {[1..n -> PendingSignals] : n \in 0..MaxPending}

(* what monitor_order returns: the state, and whether a poll of the loop saw it *)
MonitorOutcomes ==
    {[state |-> "done", in_loop |-> TRUE], [state |-> "done", in_loop |-> FALSE],
     [state |-> "cancel", in_loop |-> TRUE], [state |-> "cancel", in_loop |-> FALSE],
     [state |-> "wait", in_loop |-> FALSE], [state |-> "watch", in_loop |-> FALSE],
     [state |-> "error", in_loop |-> TRUE], [state |-> "timeout", in_loop |-> FALSE]}

(* the first signal of a kind after position i; 0 when there is none *)
NextOf(kind, i) ==
    LET later == {j \in (i + 1)..Len(pending_signals) : pending_signals[j].signal = kind}
    IN  IF later = {} THEN 0 ELSE CHOOSE j \in later : \A k \in later : j <= k

(* notion_manager.update_signal_status: it reports a failure, it never raises *)
SetStatus(i, st, ok) ==
    status' = IF ok THEN [status EXCEPT ![i] = st] ELSE status

(* [s for s in pending_signals if ... == 'BUY'] as buy_signal_data, lines 671-681 *)
RECURSIVE buy_signal_data(_)
buy_signal_data(ps) ==
    IF ps = <<>> THEN <<>>
    ELSE IF Head(ps).signal = "BUY"
         THEN <<[ticker |-> Head(ps).ticker, is_momentum |-> Head(ps).is_momentum,
                 momentum_score |-> Head(ps).momentum_score]>>
              \o buy_signal_data(Tail(ps))
         ELSE buy_signal_data(Tail(ps))

TradeIdle ==
    /\ tpc = "idle"
    /\ pending_signals = <<>>
    /\ status = <<>>
    /\ cursor = 0
    /\ placed = <<>>
    /\ handled = {}
    /\ monitored = {}

(* the pending signals found at execution time *)
TradeInputs ==
    /\ tpc = "start"
    /\ pending_signals \in PendingLists
    /\ status = [i \in 1..Len(pending_signals) |-> "PENDING"]
    /\ cursor = 0
    /\ placed = <<>>
    /\ handled = {}
    /\ monitored = {}

(* if not pending_signals: return, lines 557-561 *)
NoPendingSignals ==
    /\ tpc = "start"
    /\ pending_signals = <<>>
    /\ tpc' = "done"
    /\ UNCHANGED <<pending_signals, status, cursor, placed, handled, monitored,
                   avars, pending_orders, completed_orders>>

(* sell_signals = [...], line 645 *)
StartSells ==
    /\ tpc = "start"
    /\ pending_signals # <<>>
    /\ tpc' = "sell"
    /\ cursor' = NextOf("SELL", 0)
    /\ UNCHANGED <<pending_signals, status, placed, handled, monitored,
                   avars, pending_orders, completed_orders>>

Order(side, i, accepted) == [side |-> side, signal |-> i, accepted |-> accepted]

(* the call has returned: the for loop goes to its next signal *)
ReturnToLoop(kind) ==
    /\ handled' = handled \cup {cursor}
    /\ cursor' = NextOf(kind, cursor)

(* execute_sell_with_monitoring up to its return or to monitor_order,
   lines 346-381 and 450-483:
     "raised"   an exception before the order (get_balance, the prices)
     "empty"    balance <= 0
     "failed"   the executor failed before calling the exchange
     "rejected" the exchange answered without an order id
     "accepted" the exchange answered with an order id *)
SellOutcomes == {"raised", "empty", "failed", "rejected", "accepted"}

(* a sell that does not wait for its order *)
SellStart_unmonitored(outcome, ok) ==
    /\ tpc = "sell" /\ cursor # 0
    /\ outcome \in SellOutcomes
    /\ placed' = IF outcome \in {"rejected", "accepted"}
                 THEN Append(placed, Order("sell", cursor, outcome = "accepted"))
                 ELSE placed
    /\ SetStatus(cursor, CASE outcome = "empty" -> "SKIPPED"
                           [] outcome = "accepted" -> "IN_PROGRESS"
                           [] OTHER -> "FAILED", ok)
    /\ tpc' = "sell" /\ ReturnToLoop("SELL")
    /\ UNCHANGED <<pending_signals, monitored, avars, pending_orders, completed_orders>>

SellStart(outcome, ok) ==
    /\ tpc = "sell" /\ cursor # 0
    /\ outcome \in SellOutcomes
    /\ placed' = IF outcome \in {"rejected", "accepted"}
                 THEN Append(placed, Order("sell", cursor, outcome = "accepted"))
                 ELSE placed
    /\ SetStatus(cursor, CASE outcome = "empty" -> "SKIPPED"
                           [] outcome = "accepted" -> "IN_PROGRESS"
                           [] OTHER -> "FAILED", ok)
    /\ IF outcome = "accepted"
       THEN tpc' = "sell_monitor" /\ UNCHANGED <<handled, cursor>>
       ELSE tpc' = "sell" /\ ReturnToLoop("SELL")
    /\ UNCHANGED <<pending_signals, monitored, avars, pending_orders, completed_orders>>

(* monitor_order(order_id, timeout=60) and what follows it, lines 381-421
   (sell) and 245-283 (buy) *)
Monitored(kind, next, outcome, ok) ==
    /\ outcome \in MonitorOutcomes
    /\ monitored' = monitored \cup {Len(placed)}
    /\ completed_orders' = IF outcome.state = "done" /\ outcome.in_loop
                           THEN completed_orders \cup {Len(placed)}
                           ELSE completed_orders
    /\ SetStatus(cursor, IF outcome.state = "done" THEN "DONE" ELSE "FAILED", ok)
    /\ tpc' = next
    /\ ReturnToLoop(kind)
    /\ UNCHANGED <<pending_signals, placed, avars, pending_orders>>

SellMonitored(outcome, ok) ==
    /\ tpc = "sell_monitor"
    /\ Monitored("SELL", "sell", outcome, ok)

(* after the loop over sell_signals: time.sleep(3), the KRW balance, the
   allocation, lines 663-690 *)
SellsFinished(krw) ==
    /\ tpc = "sell" /\ cursor = 0
    /\ available_krw' = krw
    /\ buy_signals' = buy_signal_data(pending_signals)
    /\ allocations' = allocate_capital_dynamically(krw, buy_signals')
    /\ apc' = "returned"
    /\ tpc' = "buy"
    /\ cursor' = NextOf("BUY", 0)
    /\ UNCHANGED <<pending_signals, status, placed, handled, monitored,
                   pending_orders, completed_orders>>

(* upbit.get_balance("KRW") raises or answers None: the except clause of
   the whole cycle, lines 668-669 and 877-880 *)
BalanceUnavailable ==
    /\ tpc = "sell" /\ cursor = 0
    /\ tpc' = "aborted"
    /\ UNCHANGED <<pending_signals, status, cursor, placed, handled, monitored,
                   avars, pending_orders, completed_orders>>

(* a buy signal without allocation that is marked FAILED *)
BuySkipped_marked ==
    /\ tpc = "buy" /\ cursor # 0
    /\ pending_signals[cursor].ticker \notin DOMAIN allocations
    /\ status' = [status EXCEPT ![cursor] = "FAILED"]
    /\ cursor' = NextOf("BUY", cursor)
    /\ UNCHANGED <<tpc, pending_signals, placed, handled, monitored,
                   avars, pending_orders, completed_orders>>

(* a buy signal whose ticker is not in allocations: lines 692-694 *)
BuySkipped ==
    /\ tpc = "buy" /\ cursor # 0
    /\ pending_signals[cursor].ticker \notin DOMAIN allocations
    /\ cursor' = NextOf("BUY", cursor)
    /\ UNCHANGED <<tpc, pending_signals, status, placed, handled, monitored,
                   avars, pending_orders, completed_orders>>

(* execute_buy_with_amount up to its return or to monitor_order,
   lines 214-245 and 310-342 *)
BuyOutcomes == {"raised", "failed", "rejected", "accepted"}

BuyStart(outcome, ok) ==
    /\ tpc = "buy" /\ cursor # 0
    /\ pending_signals[cursor].ticker \in DOMAIN allocations
    /\ outcome \in BuyOutcomes
    /\ placed' = IF outcome \in {"rejected", "accepted"}
                 THEN Append(placed, Order("buy", cursor, outcome = "accepted"))
                 ELSE placed
    /\ SetStatus(cursor, IF outcome = "accepted" THEN "IN_PROGRESS" ELSE "FAILED", ok)
    /\ IF outcome = "accepted"
       THEN tpc' = "buy_monitor" /\ UNCHANGED <<handled, cursor>>
       ELSE tpc' = "buy" /\ ReturnToLoop("BUY")
    /\ UNCHANGED <<pending_signals, monitored, avars, pending_orders, completed_orders>>

BuyMonitored(outcome, ok) ==
    /\ tpc = "buy_monitor"
    /\ Monitored("BUY", "buy", outcome, ok)

(* hold_signals = [...], line 707 *)
BuysFinished ==
    /\ tpc = "buy" /\ cursor = 0
    /\ tpc' = "hold"
    /\ cursor' = NextOf("HOLD", 0)
    /\ UNCHANGED <<pending_signals, status, placed, handled, monitored,
                   avars, pending_orders, completed_orders>>

(* a HOLD signal is set to DONE, lines 710-752 *)
HoldUpdated(ok) ==
    /\ tpc = "hold" /\ cursor # 0
    /\ SetStatus(cursor, "DONE", ok)
    /\ ReturnToLoop("HOLD")
    /\ UNCHANGED <<tpc, pending_signals, placed, monitored,
                   avars, pending_orders, completed_orders>>

(* the portfolio update and the execution summary, lines 754-875 *)
Summary ==
    /\ tpc = "hold" /\ cursor = 0
    /\ tpc' = "done"
    /\ UNCHANGED <<pending_signals, status, cursor, placed, handled, monitored,
                   avars, pending_orders, completed_orders>>

-----------------------------------------------------------------------------
(***************************************************************************)
(* ATRRiskManager (atr_risk_manager.py): calculate_position_risk_levels    *)
(* and the cycle of monitor_positions.                                     *)
(*                                                                         *)
(* Prices, ATR and risk levels are integers in 1/1000 of a KRW, so that    *)
(* 2% of a price and 1.5 times an ATR are exact.  calculate_atr and the    *)
(* price history are taken by what the fetch gives.                        *)
(***************************************************************************)
STOP_LOSS_MULTIPLIER == 2       \* self.STOP_LOSS_MULTIPLIER = 2.0
TAKE_PROFIT_MULTIPLIER == 3     \* self.TAKE_PROFIT_MULTIPLIER = 3.0
TRAILING_STOP_THRESHOLD == 15   \* self.TRAILING_STOP_THRESHOLD = 1.5, in tenths
fallback_atr_percent == 2       \* atr = current_price * 0.02
PriceUnit == 10 * 100           \* 1 KRW

MaxPositions == 2               \* positions has at most MaxPositions entries
CurrentPrices == {10, 20}       \* pyupbit.get_current_price, in KRW
AtrValues == {1, 12}            \* a computed ATR, in KRW
RecentRanges == {<<1, 1>>, <<8, 12>>, <<20, 20>>}   \* recent low and high, in KRW
PortfolioValues == {40, 1000}   \* a computed portfolio value, in KRW

(* how a fetch of daily bars can end: it raises, it answers None or an
   empty frame, or it answers data *)
FetchFailures == {"raise", "none"}
AtrFetches ==
    [kind : FetchFailures, atr : {0}] \cup [kind : {"data"}, atr : AtrValues]
HistoryFetches ==
    [kind : FetchFailures, range : {<<0, 0>>}] \cup [kind : {"data"}, range : RecentRanges]
(* get_total_portfolio_value: 0 when its fetch fails, lines 188-190 *)
PortfolioFetches == {0} \cup PortfolioValues

(* a position of get_current_positions: total_amount > 0, a price that is
   not 0, lines 95-110 *)
Positions ==
    {p \in [current_price : CurrentPrices, balance : 0..1, locked : 0..1] :
        p.balance + p.locked > 0}

PositionLists == UNION {[1..n -> Positions] : n \in 0..MaxPositions}

market_value(p) == (p.balance + p.locked) * p.current_price

(* calculate_atr, lines 50-77, by its fetch: 0.0 when the fetch fails *)
calculate_atr(fetch) == IF fetch.kind \in FetchFailures THEN 0 ELSE fetch.atr * PriceUnit

(* lines 122-126: a zero ATR is replaced by 2% of the price *)
EffectiveAtr(p, fetch) ==
    IF calculate_atr(fetch) = 0
    THEN (p.current_price * PriceUnit * fallback_atr_percent) \div 100
    ELSE calculate_atr(fetch)

(* lines 129-136: the middle of the recent range, or the current price *)
estimated_entry(p, hist) ==
    IF hist.kind = "data"
    THEN ((hist.range[1] + hist.range[2]) * PriceUnit) \div 2
    ELSE p.current_price * PriceUnit

NoLevels == [defined |-> FALSE]

(* stop_loss after lines 139-147, before the clamp of line 153 *)
stop_loss_fixed(entry, atr, price) == entry - atr * STOP_LOSS_MULTIPLIER
stop_loss_unclamped(entry, atr, price) ==
    IF price > entry + (atr * TRAILING_STOP_THRESHOLD) \div 10
    THEN Max(entry - atr * STOP_LOSS_MULTIPLIER, price - atr * STOP_LOSS_MULTIPLIER)
    ELSE entry - atr * STOP_LOSS_MULTIPLIER

(* 'stop_loss': max(stop_loss, 0), line 153 *)
Clamp_none(x) == x
Clamp(x) == Max(x, 0)

(* calculate_position_risk_levels, lines 118-166.  The except clause is
   reached when the history fetch raises and when the portfolio value is 0
   (the division of line 159). *)
calculate_position_risk_levels(p, atrFetch, hist, pv) ==
    LET atr == EffectiveAtr(p, atrFetch)
        entry == estimated_entry(p, hist)
        price == p.current_price * PriceUnit
    IN  IF hist.kind = "raise" \/ pv = 0 THEN NoLevels
        ELSE [defined |-> TRUE,
              atr |-> atr,
              atr_percent |-> Amount(atr * 100, price),
              estimated_entry |-> entry,
              stop_loss |-> Clamp(stop_loss_unclamped(entry, atr, price)),
              take_profit |-> entry + atr * TAKE_PROFIT_MULTIPLIER,
              trailing_threshold |-> entry + (atr * TRAILING_STOP_THRESHOLD) \div 10,
              position_risk |-> Amount(market_value(p) * 100, pv)]

(* should_execute_stop_loss, lines 192-202 *)
should_execute_stop_loss_never(p, levels) == FALSE
should_execute_stop_loss(p, levels) == p.current_price * PriceUnit <= levels.stop_loss

(* should_execute_take_profit, lines 204-214 *)
should_execute_take_profit(p, levels) == p.current_price * PriceUnit >= levels.take_profit

NoRiskResult == [returned |-> FALSE]

RiskIdle ==
    /\ rpc = "idle"
    /\ positions = <<>>
    /\ rcursor = 0
    /\ portfolio_value = 0
    /\ risk_levels = <<>>
    /\ fetched = <<>>
    /\ risk_orders = <<>>
    /\ risk_alerts = {}
    /\ risk_result = NoRiskResult

(* positions = self.get_current_positions(), line 281 *)
RiskInputs ==
    /\ rpc = "start"
    /\ positions \in PositionLists
    /\ rcursor = 0
    /\ portfolio_value = 0
    /\ risk_levels = <<>>
    /\ fetched = <<>>
    /\ risk_orders = <<>>
    /\ risk_alerts = {}
    /\ risk_result = NoRiskResult

(* if not positions: return {}, lines 282-284 *)
NoPositions ==
    /\ rpc = "start"
    /\ positions = <<>>
    /\ risk_result' = [returned |-> TRUE, empty |-> TRUE]
    /\ rpc' = "done"
    /\ UNCHANGED <<positions, rcursor, portfolio_value, risk_levels, fetched,
                   risk_orders, risk_alerts>>

(* portfolio_value = self.get_total_portfolio_value(), lines 286-290 *)
StartMonitoring(pv) ==
    /\ rpc = "start"
    /\ positions # <<>>
    /\ pv \in PortfolioFetches
    /\ portfolio_value' = pv
    /\ rcursor' = 1
    /\ rpc' = "levels"
    /\ UNCHANGED <<positions, risk_levels, fetched, risk_orders, risk_alerts, risk_result>>

(* the for loop goes to its next position, or to the summary *)
NextPosition ==
    IF rcursor < Len(positions)
    THEN rcursor' = rcursor + 1 /\ rpc' = "levels"
    ELSE rcursor' = rcursor /\ rpc' = "summary"

(* if not risk_data: continue, lines 293-295 *)
SkipPosition_aborts == rcursor' = rcursor /\ rpc' = "aborted"
SkipPosition == NextPosition

(* risk_data = self.calculate_position_risk_levels(...); if not risk_data:
   continue, lines 293-298 *)
ComputeLevels(atrFetch, hist, pv) ==
    /\ rpc = "levels"
    /\ atrFetch \in AtrFetches /\ hist \in HistoryFetches /\ pv \in PortfolioFetches
    /\ LET levels == calculate_position_risk_levels(positions[rcursor], atrFetch, hist, pv)
       IN  /\ risk_levels' = Append(risk_levels, levels)
           /\ fetched' = Append(fetched,
                 [atr |-> atrFetch.kind,
                  history |-> hist.kind,
                  \* the portfolio value is asked for only when the history did not raise
                  portfolio |-> IF hist.kind = "raise" THEN "not_asked"
                                ELSE IF pv = 0 THEN "failed" ELSE "data"])
           /\ IF levels.defined
              THEN rpc' = "triggers" /\ rcursor' = rcursor
              ELSE SkipPosition
    /\ UNCHANGED <<positions, portfolio_value, risk_orders, risk_alerts, risk_result>>

(* the alerts of a position that was not executed, lines 326-333 *)
AlertsOf_none(i, levels) == {}
AlertsOf(i, levels) ==
    {<<i, "volatility">> : x \in {1} \cap (IF levels.atr_percent.num > 8 * levels.atr_percent.den
                                           THEN {1} ELSE {})}
    \cup
    {<<i, "position">> : x \in {1} \cap (IF levels.position_risk.num > 10 * levels.position_risk.den
                                         THEN {1} ELSE {})}

(* execute_risk_order, lines 216-275: no order when the free balance is not
   positive; else execute_market_sell is called and succeeds or fails *)
RiskOrderOutcomes == {"success", "failed"}

RiskOrder_unguarded(type, outcome) ==
    /\ outcome \in RiskOrderOutcomes
    /\ risk_orders' = Append(risk_orders, [position |-> rcursor, type |-> type,
                                           success |-> outcome = "success"])
    /\ risk_alerts' = IF outcome = "success" THEN risk_alerts
                      ELSE risk_alerts \cup AlertsOf(rcursor, risk_levels[rcursor])

RiskOrder(type, outcome) ==
    LET p == positions[rcursor]
        executed == p.balance > 0 /\ outcome = "success"
    IN  /\ outcome \in RiskOrderOutcomes
        /\ risk_orders' = IF p.balance > 0
                          THEN Append(risk_orders,
                                      [position |-> rcursor, type |-> type,
                                       success |-> outcome = "success"])
                          ELSE risk_orders
        /\ risk_alerts' = IF executed THEN risk_alerts
                          ELSE risk_alerts \cup AlertsOf(rcursor, risk_levels[rcursor])

(* a stop-loss whose failed order is tried once more *)
StopLoss_retried(outcome) ==
    /\ rpc = "triggers"
    /\ should_execute_stop_loss(positions[rcursor], risk_levels[rcursor])
    /\ RiskOrder("STOP-LOSS", outcome)
    /\ IF outcome = "failed" /\ Len(risk_orders) < Len(positions)
       THEN UNCHANGED <<rcursor, rpc>>
       ELSE NextPosition
    /\ UNCHANGED <<positions, portfolio_value, risk_levels, fetched, risk_result>>

(* lines 304-312 *)
StopLoss(outcome) ==
    /\ rpc = "triggers"
    /\ should_execute_stop_loss(positions[rcursor], risk_levels[rcursor])
    /\ RiskOrder("STOP-LOSS", outcome)
    /\ NextPosition
    /\ UNCHANGED <<positions, portfolio_value, risk_levels, fetched, risk_result>>

(* lines 315-323 *)
TakeProfit(outcome) ==
    /\ rpc = "triggers"
    /\ ~should_execute_stop_loss(positions[rcursor], risk_levels[rcursor])
    /\ should_execute_take_profit(positions[rcursor], risk_levels[rcursor])
    /\ RiskOrder("TAKE-PROFIT", outcome)
    /\ NextPosition
    /\ UNCHANGED <<positions, portfolio_value, risk_levels, fetched, risk_result>>

(* neither trigger: only the alerts, lines 326-333 *)
NoTrigger ==
    /\ rpc = "triggers"
    /\ ~should_execute_stop_loss(positions[rcursor], risk_levels[rcursor])
    /\ ~should_execute_take_profit(positions[rcursor], risk_levels[rcursor])
    /\ risk_alerts' = risk_alerts \cup AlertsOf(rcursor, risk_levels[rcursor])
    /\ NextPosition
    /\ UNCHANGED <<positions, portfolio_value, risk_levels, fetched, risk_orders,
                   risk_result>>

ExecutedOrders == SelectSeq(risk_orders, LAMBDA o : o.success)

(* send_monitoring_summary and the returned dict, lines 338-351 *)
RiskSummary ==
    /\ rpc = "summary"
    /\ risk_result' = [returned |-> TRUE, empty |-> FALSE,
                       positions_monitored |-> Len(positions),
                       orders_executed |-> Len(ExecutedOrders),
                       risk_alerts |-> Cardinality(risk_alerts),
                       portfolio_value |-> portfolio_value]
    /\ rpc' = "done"
    /\ UNCHANGED <<positions, rcursor, portfolio_value, risk_levels, fetched,
                   risk_orders, risk_alerts>>

RiskNext ==
    /\ \/ NoPositions
       \/ \E pv \in PortfolioFetches : StartMonitoring(pv)
       \/ \E atrFetch \in AtrFetches, hist \in HistoryFetches, pv \in PortfolioFetches :
             ComputeLevels(atrFetch, hist, pv)
       \/ \E outcome \in RiskOrderOutcomes : StopLoss(outcome)
       \/ \E outcome \in RiskOrderOutcomes : TakeProfit(outcome)
       \/ NoTrigger
       \/ RiskSummary
    /\ UNCHANGED <<mvars, avars, tvars, xvars>>

-----------------------------------------------------------------------------
(***************************************************************************)
(* EnhancedSmartOrderExecutor (enhanced_smart_order_executor.py):          *)
(* execute_market_sell and execute_market_buy, one call each.              *)
(*                                                                         *)
(* Coin amounts are integers in 1/20 of 0.0001 coin, so that 5% of a       *)
(* balance that is a multiple of 0.0001 is exact; KRW amounts of a buy are *)
(* integers in 500 KRW.                                                    *)
(***************************************************************************)
CoinUnit == 4 * 5               \* 0.0001 coin
test_sell_percent == 5          \* current_balance * 0.05
test_sell_floor == 1            \* max(test_amount, 0.0001), in 0.0001 coin
test_buy_cap == 11              \* min(krw_amount, 5500), in 500 KRW

SellAmounts == {10, 2 * CoinUnit, 10 * CoinUnit, 100 * CoinUnit}   \* the amount asked to sell
BuyAmounts == {10, 11, 12, 40}                                     \* the krw_amount asked to buy
FreeBalances == {0, 10 * CoinUnit, 40 * CoinUnit, 100 * CoinUnit}  \* upbit.get_balance(ticker)

(* what an exchange call can give: it raises, it answers nothing (None, 0,
   an empty value), or it answers a value; an order call can also answer a
   record without 'uuid' *)
Answers(values) ==
    [kind : {"raise", "none"}, value : {0}] \cup [kind : {"value"}, value : values]
NotAsked == [kind |-> "not_asked", value |-> 0]
BalanceAnswers == Answers(FreeBalances)
PriceAnswers == Answers({100})
OrderAnswers == [kind : {"raise", "none", "no_uuid", "uuid"}, value : {0}]

(* is_test_mode and the requested amount of a call *)
ExecCalls ==
    [side : {"sell"}, test_mode : BOOLEAN, amount : SellAmounts]
        \cup [side : {"buy"}, test_mode : BOOLEAN, amount : BuyAmounts]

NoExecResult == [returned |-> FALSE]

(* history: the answers the call got *)
Asked(balance, price, order) == [balance |-> balance, price |-> price, order |-> order]

(* the two result dicts *)
ExecSuccess(price, amount) ==
    [returned |-> TRUE, success |-> TRUE, order |-> "uuid",
     executed_price |-> price, executed_amount |-> amount, error |-> "absent"]
ExecFailure(reason) ==
    [returned |-> TRUE, success |-> FALSE, order |-> "absent",
     executed_price |-> "absent", executed_amount |-> 0, error |-> reason]

ExecIdle ==
    executor = [pc |-> "idle"]

ExecInputs ==
    executor \in [pc : {"called"}, call : ExecCalls, asked : {Asked(NotAsked, NotAsked, NotAsked)},
                  submitted : {<<>>}, result : {NoExecResult}]

(* lines 128-135: the amount of a test-mode sell with a positive balance *)
TestSellAmount_unfloored(balance, amount) == Min((balance * test_sell_percent) \div 100, amount)
TestSellAmount(balance, amount) ==
    Max(Min((balance * test_sell_percent) \div 100, amount), test_sell_floor * CoinUnit)

(* lines 175-177: the krw_amount of a test-mode buy *)
TestBuyAmount_whole(krw_amount) == krw_amount + 0
TestBuyAmount(krw_amount) == Min(krw_amount, test_buy_cap)

(* what the two functions do with the price before the order *)
PriceOf_answer(price) == IF price.kind = "value" THEN "estimate" ELSE "none"

(* the answer to the order: lines 146-156 and 194-204 *)
OrderResult_any_answer(side, order, price, amount) ==
    CASE order.kind = "raise" -> ExecFailure("exception")
      [] order.kind \in {"uuid", "no_uuid"} -> ExecSuccess(PriceOf_answer(price), amount)
      [] OTHER -> ExecFailure("Failed order")
OrderResult(side, order, price, amount) ==
    CASE order.kind = "raise" -> ExecFailure("exception")
      [] order.kind = "uuid" -> ExecSuccess(PriceOf_answer(price), amount)
      [] OTHER -> ExecFailure(IF side = "sell" THEN "Failed market sell"
                              ELSE "Failed market buy")

(* execute_market_sell, lines 121-160 *)
execute_market_sell(balance, price, order) ==
    LET c == executor.call
        \* current_balance > 0 raises on None, lines 130-131
        amount == IF c.test_mode /\ balance.kind = "value" /\ balance.value > 0
                  THEN TestSellAmount(balance.value, c.amount)
                  ELSE c.amount
        raised_before == \/ c.test_mode /\ balance.kind \in {"raise", "none"}
                         \/ price.kind = "raise"
    IN  /\ executor.pc = "called" /\ c.side = "sell"
        /\ balance \in (IF c.test_mode THEN BalanceAnswers ELSE {NotAsked})
        /\ price \in PriceAnswers /\ order \in OrderAnswers
        /\ executor' =
              IF raised_before
              THEN [executor EXCEPT !.pc = "returned",
                                    !.asked = Asked(balance, price, NotAsked),
                                    !.result = ExecFailure("exception")]
              ELSE [executor EXCEPT !.pc = "returned",
                                    !.asked = Asked(balance, price, order),
                                    !.submitted = <<amount>>,
                                    !.result = OrderResult("sell", order, price, amount)]
        /\ UNCHANGED <<mvars, avars, tvars, rvars, retry, batch, atr_calc>>

(* if not current_price: return, lines 184-186 *)
BuyNeedsPrice_not(price) == FALSE
BuyNeedsPrice(price) == price.kind = "none"

(* execute_market_buy, lines 168-208; executed_amount is the estimate
   krw_amount * 0.995 / current_price, kept as the krw_amount it is made of *)
execute_market_buy(price, order) ==
    LET c == executor.call
        krw_amount == IF c.test_mode THEN TestBuyAmount(c.amount) ELSE c.amount
    IN  /\ executor.pc = "called" /\ c.side = "buy"
        /\ price \in PriceAnswers /\ order \in OrderAnswers
        /\ executor' =
              IF price.kind = "raise"
              THEN [executor EXCEPT !.pc = "returned",
                                    !.asked = Asked(NotAsked, price, NotAsked),
                                    !.result = ExecFailure("exception")]
              ELSE IF BuyNeedsPrice(price)
              THEN [executor EXCEPT !.pc = "returned",
                                    !.asked = Asked(NotAsked, price, NotAsked),
                                    !.result = ExecFailure("Couldn't get current price")]
              ELSE [executor EXCEPT !.pc = "returned",
                                    !.asked = Asked(NotAsked, price, order),
                                    !.submitted = <<krw_amount>>,
                                    !.result = OrderResult("buy", order, price, krw_amount)]
        /\ UNCHANGED <<mvars, avars, tvars, rvars, retry, batch, atr_calc>>

ExecNext ==
    \/ \E balance \in BalanceAnswers \cup {NotAsked}, price \in PriceAnswers,
          order \in OrderAnswers : execute_market_sell(balance, price, order)
    \/ \E price \in PriceAnswers, order \in OrderAnswers : execute_market_buy(price, order)

(* the other single calls are not running *)
(***************************************************************************)
(* execute_risk_order with the executor behind it: the amount the risk      *)
(* manager passes to execute_market_sell and the amount the executor        *)
(* submits, in 1/20 of 0.0001 coin.                                         *)
(***************************************************************************)
risk_test_amount == 10 * CoinUnit       \* min(amount, 0.001)

(* position_data['balance'] and position_data['locked'] of the position *)
RiskBalances == {0, 10, 2 * CoinUnit, 10 * CoinUnit, 100 * CoinUnit}
RiskLocked == {0, 100 * CoinUnit}

(* self.test_mode of the risk manager, TEST_MODE of the executor, and the
   position: get_current_positions keeps the positions with
   balance + locked > 0 *)
RiskOrderInputs ==
    /\ executor \in [pc : {"risk_called"},
                     risk : [test_mode : BOOLEAN, balance : RiskBalances,
                             locked : RiskLocked],
                     call : [side : {"sell"}, test_mode : BOOLEAN, amount : {0}],
                     asked : {Asked(NotAsked, NotAsked, NotAsked)},
                     submitted : {<<>>}, result : {NoExecResult}]
    /\ executor.risk.balance + executor.risk.locked > 0

(* an amount that test mode leaves whole *)
RiskAmount_whole(test_mode, balance) == balance

(* amount = position_data['balance']; if self.test_mode: min(amount, 0.001),
   lines 220 and 231-234 *)
RiskAmount(test_mode, balance) ==
    IF test_mode THEN Min(balance, risk_test_amount) ELSE balance

(* execute_risk_order up to its call of execute_market_sell, lines 218-242:
   without free balance it returns False before the executor is called *)
execute_risk_order ==
    /\ executor.pc = "risk_called"
    /\ executor' =
          IF executor.risk.balance <= 0
          THEN [executor EXCEPT !.pc = "not_called"]
          ELSE [executor EXCEPT !.pc = "called",
                                !.call.amount = RiskAmount(executor.risk.test_mode,
                                                           executor.risk.balance)]
    /\ UNCHANGED <<mvars, avars, tvars, rvars, retry, batch, atr_calc>>

RiskOrderNext ==
    \/ execute_risk_order
    \/ \E balance \in BalanceAnswers \cup {NotAsked}, price \in PriceAnswers,
          order \in OrderAnswers : execute_market_sell(balance, price, order)

RetryIdle == retry = [pc |-> "idle"]
BatchIdle == batch = [pc |-> "idle"]
AtrIdle == atr_calc = [pc |-> "idle"]

CallsIdle == ExecIdle /\ RetryIdle /\ BatchIdle /\ AtrIdle

-----------------------------------------------------------------------------
(***************************************************************************)
(* ImprovedOrderManager: cancel_order and get_order_status (lines 137-166) *)
(* and wait_for_orders_completion (lines 105-135), one call each.          *)
(* The retry calls count their pauses in seconds; the batch counts time in *)
(* ticks of half a second, as monitor_order does.                          *)
(***************************************************************************)
max_retries == 3                \* max_retries = 3
retry_pause == 1                \* time.sleep(1)

(* what upbit.cancel_order and upbit.get_order can do in one attempt *)
RetryAnswers(op) == IF op = "cancel" THEN {"raise", "none", "record"} ELSE Responses

RetryInputs ==
    retry \in [pc : {"called"}, op : {"cancel", "status"}, order_id : OrderIds,
               attempt : {0}, log : {<<>>}, result : {"none_yet"}]

Called(answer) == [ev |-> "call", answer |-> answer, secs |-> 0]
Paused == [ev |-> "sleep", answer |-> "none", secs |-> retry_pause]

(* if attempt < max_retries - 1: time.sleep(1), lines 147-148 and 162-163 *)
PauseAfter_always(attempt) == <<Paused>>
PauseAfter(attempt) == IF attempt < max_retries - 1 THEN <<Paused>> ELSE <<>>

(* one turn of `for attempt in range(max_retries)`, and what follows the
   loop when it was the last one *)
RetryAttempt(answer) ==
    /\ retry.pc = "called"
    /\ retry.attempt < max_retries
    /\ answer \in RetryAnswers(retry.op)
    /\ retry' =
          IF answer # "raise"
          THEN [retry EXCEPT !.pc = "returned",
                             !.log = Append(@, Called(answer)),
                             !.result = IF retry.op = "cancel" THEN "True" ELSE answer]
          ELSE [retry EXCEPT !.pc = IF retry.attempt + 1 < max_retries
                                    THEN "called" ELSE "returned",
                             !.attempt = @ + 1,
                             !.log = Append(@, Called(answer)) \o PauseAfter(retry.attempt),
                             !.result = IF retry.attempt + 1 < max_retries THEN "none_yet"
                                        ELSE IF retry.op = "cancel" THEN "False"
                                        ELSE "unknown"]
    /\ UNCHANGED <<mvars, avars, tvars, rvars, executor, batch, atr_calc>>

MaxBatch == 3                   \* orders has at most MaxBatch entries
BatchTimeouts == {2, 4, 6}      \* timeout: 1, 2 or 3 seconds, in ticks
min_remaining == 2              \* max(1, timeout - elapsed): 1 second, in ticks
NoUuid == 0                     \* an order without 'uuid'
BatchOrders == UNION {[1..n -> OrderIds \cup {NoUuid}] : n \in 0..MaxBatch}
BatchStates == {"done", "timeout", "error"}   \* the state monitor_order returns

BatchInputs ==
    batch \in [pc : {"called"}, orders : BatchOrders, timeout : BatchTimeouts,
               now : {0}, cursor : {1}, handed : {<<>>}, results : {<<>>},
               returned : {FALSE}]

(* remaining_timeout = max(1, timeout - elapsed), line 118 *)
remaining_timeout_whole(total, elapsed_time) == total + 0 * elapsed_time
remaining_timeout(total, elapsed_time) == Max(min_remaining, total - elapsed_time)

(* an order without 'uuid' is passed over, line 114 *)
BatchPass ==
    /\ batch.pc = "called"
    /\ batch.cursor <= Len(batch.orders)
    /\ batch.orders[batch.cursor] = NoUuid
    /\ batch' = [batch EXCEPT !.cursor = @ + 1]
    /\ UNCHANGED <<mvars, avars, tvars, rvars, executor, retry, atr_calc>>

(* lines 115-122: the order of the loop is monitored with what remains; the
   call takes d ticks, at most its timeout and the last poll's delay *)
BatchMonitor(d, state) ==
    LET o == batch.orders[batch.cursor]
        remaining == remaining_timeout(batch.timeout, batch.now)
    IN  /\ batch.pc = "called"
        /\ batch.cursor <= Len(batch.orders)
        /\ o # NoUuid
        /\ d \in 0..(remaining + MaxJitter)
        /\ state \in BatchStates
        /\ batch' = [batch EXCEPT
              !.handed = Append(@, [index |-> batch.cursor, order_id |-> o,
                                    elapsed |-> batch.now, timeout |-> remaining]),
              !.now = @ + d,
              !.results = [x \in DOMAIN @ \cup {o} |-> IF x = o THEN state ELSE @[x]],
              !.cursor = @ + 1]
        /\ UNCHANGED <<mvars, avars, tvars, rvars, executor, retry, atr_calc>>

(* the summary and return results, lines 124-135 *)
BatchReturn ==
    /\ batch.pc = "called"
    /\ batch.cursor > Len(batch.orders)
    /\ batch' = [batch EXCEPT !.pc = "returned", !.returned = TRUE]
    /\ UNCHANGED <<mvars, avars, tvars, rvars, executor, retry, atr_calc>>

CallsNext ==
    \/ \E answer \in Responses \cup {"record"} : RetryAttempt(answer)
    \/ BatchPass
    \/ \E d \in 0..(MaxTimeout + MaxJitter), state \in BatchStates : BatchMonitor(d, state)
    \/ BatchReturn

-----------------------------------------------------------------------------
(***************************************************************************)
(* ATRRiskManager.calculate_atr (atr_risk_manager.py, lines 50-77) on a    *)
(* frame of daily bars, one call.  The result is the fraction the rolling  *)
(* mean is, reduced.                                                       *)
(***************************************************************************)
MaxBars == 4                    \* get_ohlcv answers at most MaxBars bars
Periods == {2, 3}               \* the period of the call
BarPrices == 1..3

(* a daily bar: low <= close <= high *)
Bars == {b \in [high : BarPrices, low : BarPrices, close : BarPrices] :
            b.low <= b.close /\ b.close <= b.high}

(* what get_ohlcv gives: it raises, it answers None, or a frame of bars *)
Frames ==
    [kind : {"raise", "none"}, bars : {<<>>}]
        \cup [kind : {"data"}, bars : UNION {[1..n -> Bars] : n \in 0..MaxBars}]

NoAtr == [returned |-> FALSE]
AtrResult(num, den) == [returned |-> TRUE, atr |-> Amount(num, den)]

AtrInputs ==
    atr_calc \in [pc : {"called"}, period : Periods, df : Frames, result : {NoAtr}]

Abs(x) == IF x >= 0 THEN x ELSE -x

(* lines 62-68: the first bar has no prev_close, and max(axis=1) passes
   over the two components that are NaN *)
true_range_no_gap(bars, k) == bars[k].high - bars[k].low
true_range(bars, k) ==
    IF k = 1 THEN bars[k].high - bars[k].low
    ELSE Max(bars[k].high - bars[k].low,
             Max(Abs(bars[k].high - bars[k - 1].close),
                 Abs(bars[k].low - bars[k - 1].close)))

(* the sum of the true ranges of bars from..to *)
RECURSIVE SumTrueRange(_, _, _)
SumTrueRange(bars, from, to) ==
    IF from > to THEN 0
    ELSE true_range(bars, to) + SumTrueRange(bars, from, to - 1)

(* if df is None or len(df) < period: return 0.0, lines 58-59 *)
TooShort(df, period) == df.kind # "data" \/ Len(df.bars) < period

(* calculate_atr, lines 50-77: rolling(window=period).mean().iloc[-1] *)
calculate_atr_of(df, period) ==
    IF TooShort(df, period) THEN AtrResult(0, 1)
    ELSE AtrResult(SumTrueRange(df.bars, Len(df.bars) - period + 1, Len(df.bars)),
                   period)

CalculateAtr ==
    /\ atr_calc.pc = "called"
    /\ atr_calc' = [atr_calc EXCEPT !.pc = "returned",
                                    !.result = calculate_atr_of(atr_calc.df, atr_calc.period)]
    /\ UNCHANGED <<mvars, avars, tvars, rvars, executor, retry, batch>>

(***************************************************************************)
(* One signal with the order manager behind it: execute_sell_with_          *)
(* monitoring and execute_buy_with_amount call monitor_order on the order   *)
(* the exchange accepted, and read the state of the record it returns.      *)
(***************************************************************************)
Monitoring == {"sell_monitor", "buy_monitor"}

(* the cycle finds at most one pending signal *)
SignalInputs ==
    /\ TradeInputs
    /\ Len(pending_signals) <= 1

(* order_manager.monitor_order(order_id, timeout=60): lines 245 and 381 of the
   trader, lines 25-34 of the order manager.  The locals of the call are
   fresh; the 60 seconds are any timeout of the bounded set. *)
OrderMonitorCall(t) ==
    /\ tpc \in Monitoring
    /\ pc \in {"idle", "returned"}
    /\ order_id # Len(placed)
    /\ pc' = "loop"
    /\ order_id' = Len(placed)
    /\ timeout' = EffectiveTimeout(t)
    /\ check_interval' = 1
    /\ now' = 0
    /\ consecutive_failures' = 0
    /\ retry_delay' = 1
    /\ elapsed' = 0
    /\ result' = NoResult
    /\ calls' = 0 /\ sleeps' = 0 /\ final_calls' = 0 /\ all_sleeps_ci' = TRUE
    /\ polled' = "none_yet" /\ fail_run' = 0 /\ seen_malformed' = FALSE
    /\ lastResp' = "none_yet"
    /\ UNCHANGED <<pending_orders, completed_orders, avars, tvars, rvars, xvars>>

(* a status update that takes every returned state for 'done' *)
StatusFor_always_done(state) == "DONE"

(* if order_result['state'] == 'done': DONE, else: FAILED, lines 247-283 and
   383-421 *)
StatusFor(state) == IF state = "done" THEN "DONE" ELSE "FAILED"

(* monitor_order has returned: the status update and the return of the
   function, lines 247-283 (buy) and 383-421 (sell) *)
OrderReturned(kind, next, ok) ==
    /\ pc = "returned" /\ order_id = Len(placed)
    /\ monitored' = monitored \cup {Len(placed)}
    /\ SetStatus(cursor, StatusFor(result.state), ok)
    /\ tpc' = next
    /\ ReturnToLoop(kind)
    /\ UNCHANGED <<pending_signals, placed, avars, mvars, rvars, xvars>>

SellReturned(ok) ==
    /\ tpc = "sell_monitor"
    /\ OrderReturned("SELL", "sell", ok)

BuyReturned(ok) ==
    /\ tpc = "buy_monitor"
    /\ OrderReturned("BUY", "buy", ok)

(***************************************************************************)
(* RiskMonitorScheduler.run_risk_monitoring (risk_monitor_scheduler.py):    *)
(* the scheduled job around one risk monitoring cycle.  rpc goes on from    *)
(* "done" to what the job did with the result.                              *)
(***************************************************************************)
(* a test that takes every returned dict for a success *)
ResultIsTrue_any(r) == r.returned

(* if result: an empty dict is false, line 62 *)
ResultIsTrue(r) == r.returned /\ ~r.empty

(* if not self.should_run_monitoring(): return, lines 53-55 *)
OutsideHours ==
    /\ rpc = "start"
    /\ rpc' = "not_run"
    /\ UNCHANGED <<positions, rcursor, portfolio_value, risk_levels, fetched,
                   risk_orders, risk_alerts, risk_result>>

(* what follows run_risk_monitoring_cycle, lines 60-70: the completion is
   logged and, at the top of every fourth hour, send_status_update is called;
   a false result is logged as a failure *)
HandleResult(status_time) ==
    /\ rpc = "done"
    /\ rpc' = IF ResultIsTrue(risk_result)
              THEN (IF status_time THEN "status_sent" ELSE "completed")
              ELSE "failed"
    /\ UNCHANGED <<positions, rcursor, portfolio_value, risk_levels, fetched,
                   risk_orders, risk_alerts, risk_result>>

MonitorCallVars == <<pc, order_id, timeout, check_interval, now, consecutive_failures,
                     retry_delay, elapsed, result, calls, sleeps, final_calls,
                     all_sleeps_ci, polled, fail_run, seen_malformed, lastResp>>

TradeNext ==
    /\ \/ NoPendingSignals
       \/ StartSells
       \/ \E outcome \in SellOutcomes, ok \in BOOLEAN : SellStart(outcome, ok)
       \/ \E outcome \in MonitorOutcomes, ok \in BOOLEAN : SellMonitored(outcome, ok)
       \/ \E krw \in Balances : SellsFinished(krw)
       \/ BalanceUnavailable
       \/ BuySkipped
       \/ \E outcome \in BuyOutcomes, ok \in BOOLEAN : BuyStart(outcome, ok)
       \/ \E outcome \in MonitorOutcomes, ok \in BOOLEAN : BuyMonitored(outcome, ok)
       \/ BuysFinished
       \/ \E ok \in BOOLEAN : HoldUpdated(ok)
       \/ Summary
    /\ UNCHANGED <<MonitorCallVars, rvars, xvars>>

MonitorNext ==
    \/ \E o \in OrderIds, t \in 0..MaxTimeout, ci \in 1..MaxInterval : MonitorCall(o, t, ci)
    \/ PollDone
    \/ PollCancel
    \/ \E r \in Responses, jitter \in Jitters : PollOpen(r, jitter)
    \/ \E r \in Responses, jitter \in Jitters : PollFailRetry(r, jitter)
    \/ \E r \in Responses : PollFailAbandon(r)
    \/ LoopExit
    \/ \E r \in Responses : FinalCheck(r)

MonitorStep == MonitorNext /\ UNCHANGED <<avars, tvars, rvars, xvars>>

Init == ManagerInit /\ MonitorIdle /\ AllocIdle /\ TradeIdle /\ RiskIdle /\ CallsIdle

Next == MonitorStep

Spec == Init /\ [][Next]_vars

(* every get_order call returns or raises, and the process keeps running *)
LiveSpec == Init /\ [][Next]_vars /\ WF_vars(Next)

(* allocate_capital_dynamically on every argument of the bounded sets *)
InitAlloc == ManagerInit /\ MonitorIdle /\ AllocInputs /\ TradeIdle /\ RiskIdle /\ CallsIdle

SpecAlloc == InitAlloc /\ [][AllocNext]_vars

(* one trade cycle on every list of pending signals of the bounded sets *)
InitTrade == ManagerInit /\ MonitorIdle /\ AllocIdle /\ TradeInputs /\ RiskIdle /\ CallsIdle

SpecTrade == InitTrade /\ [][TradeNext]_vars

(* one risk monitoring cycle on every list of positions of the bounded sets *)
InitRisk == ManagerInit /\ MonitorIdle /\ AllocIdle /\ TradeIdle /\ RiskInputs /\ CallsIdle

SpecRisk == InitRisk /\ [][RiskNext]_vars

(* the single calls *)
CoreIdle == ManagerInit /\ MonitorIdle /\ AllocIdle /\ TradeIdle /\ RiskIdle

(* execute_market_sell and execute_market_buy on every input of the bounded sets *)
InitExec == CoreIdle /\ ExecInputs /\ RetryIdle /\ BatchIdle /\ AtrIdle

SpecExec == InitExec /\ [][ExecNext]_vars

(* the scheduled job: one risk monitoring cycle and the handling of its
   result *)
SchedulerNext ==
    \/ RiskNext
    \/ /\ \/ OutsideHours
          \/ \E status_time \in BOOLEAN : HandleResult(status_time)
       /\ UNCHANGED <<mvars, avars, tvars, xvars>>

SpecScheduler == InitRisk /\ [][SchedulerNext]_vars

(* one call of execute_risk_order with the executor it calls *)
InitRiskOrder == CoreIdle /\ RiskOrderInputs /\ RetryIdle /\ BatchIdle /\ AtrIdle

SpecRiskOrder == InitRiskOrder /\ [][RiskOrderNext]_vars

(* one call of cancel_order or get_order_status, or one call of
   wait_for_orders_completion *)
InitCalls ==
    /\ CoreIdle /\ ExecIdle /\ AtrIdle
    /\ \/ RetryInputs /\ BatchIdle
       \/ RetryIdle /\ BatchInputs

SpecCalls == InitCalls /\ [][CallsNext]_vars

(* calculate_atr on every frame of the bounded sets *)
InitAtr == CoreIdle /\ ExecIdle /\ RetryIdle /\ BatchIdle /\ AtrInputs

SpecAtr == InitAtr /\ [][CalculateAtr]_vars

(* a trade cycle of at most one signal in which the accepted order is
   monitored by monitor_order *)
InitSignal == ManagerInit /\ MonitorIdle /\ AllocIdle /\ SignalInputs /\ RiskIdle /\ CallsIdle

SignalNext ==
    \/ /\ \/ NoPendingSignals
          \/ StartSells
          \/ \E outcome \in SellOutcomes, ok \in BOOLEAN : SellStart(outcome, ok)
          \/ \E krw \in Balances : SellsFinished(krw)
          \/ BalanceUnavailable
          \/ BuySkipped
          \/ \E outcome \in BuyOutcomes, ok \in BOOLEAN : BuyStart(outcome, ok)
          \/ BuysFinished
          \/ \E ok \in BOOLEAN : HoldUpdated(ok)
          \/ Summary
       /\ UNCHANGED <<MonitorCallVars, rvars, xvars>>
    \/ \E t \in 1..MaxTimeout : OrderMonitorCall(t)
    \/ /\ tpc \in Monitoring
       /\ \/ PollDone
          \/ PollCancel
          \/ \E r \in Responses, jitter \in Jitters : PollOpen(r, jitter)
          \/ \E r \in Responses, jitter \in Jitters : PollFailRetry(r, jitter)
          \/ \E r \in Responses : PollFailAbandon(r)
          \/ LoopExit
          \/ \E r \in Responses : FinalCheck(r)
       /\ UNCHANGED <<avars, tvars, rvars, xvars>>
    \/ \E ok \in BOOLEAN : SellReturned(ok)
    \/ \E ok \in BOOLEAN : BuyReturned(ok)

SpecSignal == InitSignal /\ [][SignalNext]_vars

(* a cycle of either kind: a risk monitoring cycle, or a trade cycle on
   signals without momentum (the momentum fields only move the amounts) *)
InitCycles ==
    \/ InitRisk
    \/ InitTrade /\ \A i \in 1..Len(pending_signals) : ~pending_signals[i].is_momentum

CyclesNext == TradeNext \/ RiskNext

SpecCycles == InitCycles /\ [][CyclesNext]_vars

TypeOK ==
    /\ tpc \in {"idle", "start", "sell", "sell_monitor", "buy", "buy_monitor",
                "hold", "done", "aborted"}
    /\ cursor \in 0..Len(pending_signals)
    /\ DOMAIN status = DOMAIN pending_signals
    /\ \A i \in DOMAIN status :
          status[i] \in {"PENDING", "IN_PROGRESS", "DONE", "FAILED", "SKIPPED"}
    /\ pc \in {"idle", "loop", "final", "returned"}
    /\ result.state \in States \cup {"none", "error", "timeout"}
    /\ consecutive_failures \in 0..max_failures

-----------------------------------------------------------------------------
(* Properties of monitor_order *)

Returned == pc = "returned"

(* every get_order call of the monitoring answered 'wait' *)
AllWait == polled = "wait" /\ lastResp = "wait"

(* every get_order call of the monitoring raised *)
AllRaised == polled \in {"none_yet", "raise"} /\ lastResp = "raise"

(* C1: against an exchange whose get_order always answers 'wait',
   monitor_order returns state 'timeout' once the deadline has elapsed, and
   never a record whose state is 'wait'. *)
C1_AlwaysWaitTimesOut ==
    (Returned /\ AllWait) =>
        /\ result.state = "timeout"
        /\ result.state # "wait"
        /\ elapsed >= timeout

(* what the code does there: the last check's record is returned as it is *)
C1_AlwaysWaitReturnsWait ==
    (Returned /\ AllWait) => (result = Record("wait") /\ elapsed >= timeout)

(* C2, as claimed: against an exchange whose get_order always raises,
   monitor_order returns state 'error' after exactly 5 failed polls. *)
C2_AlwaysRaiseIsError ==
    (Returned /\ AllRaised) =>
        /\ result.state = "error"
        /\ calls = 5
        /\ consecutive_failures = 5

(* C2, amended: against an exchange whose get_order always raises,
   monitor_order returns 'error' after exactly 5 failed polls and no sixth
   call when the fifth poll starts before the deadline; when the deadline
   elapses first, the loop is left after fewer than 5 failed polls and the
   last check, raising too, gives 'timeout'.  get_order is never called more
   than 5 times. *)
C2_AlwaysRaise ==
    (Returned /\ AllRaised) =>
        /\ calls <= 5
        /\ (now < timeout) =>
              (result = ErrorResult /\ calls = 5 /\ consecutive_failures = 5
               /\ final_calls = 0)
        /\ (now >= timeout) =>
              (result = TimeoutResult /\ consecutive_failures < 5
               /\ final_calls = 1 /\ elapsed >= timeout)

C2_Witness ==
    Returned /\ AllRaised /\ result = ErrorResult /\ calls = 5 /\ final_calls = 0

(* C3, as claimed: after the n-th failed poll in a row (n < 5) the next poll
   is delayed by min(check_interval * 2^n, 5 s); a successful poll resets
   the counter to 0 and the delay to check_interval; 'error' needs 5 failed
   polls in a row.  A failed poll is one that ended in the except clause. *)
C3_BackoffOfEveryFailure ==
    [][ /\ (pc = "loop" /\ pc' = "loop" /\ fail_run' > 0 /\ fail_run' < 5) =>
              /\ retry_delay' = Min(check_interval * (2 ^ fail_run'), 10)
              /\ now' - now >= retry_delay'
        /\ (pc = "loop" /\ pc' = "loop" /\ fail_run' = 0) =>
              /\ consecutive_failures' = 0
              /\ retry_delay' = check_interval
              /\ now' - now >= check_interval
        /\ (result'.state = "error") => fail_run' >= 5
      ]_vars

(* what the code does there.  In a monitoring in which get_order
   has not answered None or a record without a 'state' field, the
   n-th failed poll in a row (its get_order raised) is followed by a delay
   of min(check_interval * 2^n, 5 s).  The first such malformed answer,
   whatever came before it, leaves the counter at 1 and the delay at
   min(check_interval * 2, 5 s).  In every monitoring a poll that returned a
   record with a state resets the counter to 0 and the delay to
   check_interval, and 'error' is returned only after 5 failed polls in a
   row. *)
C3_Backoff ==
    [][ /\ (pc = "loop" /\ pc' = "loop" /\ ~seen_malformed'
            /\ fail_run' > 0 /\ fail_run' < 5) =>
              /\ consecutive_failures' = fail_run'
              /\ retry_delay' = Min(check_interval * (2 ^ fail_run'), 10)
              /\ now' - now >= retry_delay'
        /\ (pc = "loop" /\ pc' = "loop" /\ ~seen_malformed /\ seen_malformed') =>
              /\ consecutive_failures' = 1
              /\ retry_delay' = Min(check_interval * 2, 10)
              /\ now' - now >= retry_delay'
        /\ (pc = "loop" /\ pc' = "loop" /\ fail_run' = 0) =>
              /\ consecutive_failures' = 0
              /\ retry_delay' = check_interval
              /\ now' - now >= check_interval
        /\ (result'.state = "error") => fail_run' >= 5
      ]_vars

(* C4: when the loop is left because the deadline elapsed, get_order is
   called exactly once more, and a final answer 'done' is returned as the
   result. *)
C4_FinalCheck ==
    [][ /\ (pc = "loop" /\ now >= timeout) =>
              (pc' = "final" /\ calls' = calls /\ final_calls' = 0)
        /\ (pc = "final") =>
              /\ pc' = "returned"
              /\ final_calls' = 1
              /\ elapsed >= timeout
              /\ (lastResp' = "done" => result' = Record("done"))
      ]_vars

C4_Witness ==
    Returned /\ final_calls = 1 /\ lastResp = "done" /\ result = Record("done")

(* C5: the first loop poll that observes 'done' or 'cancel' ends the
   monitoring: the observed record is returned, with no sleep after it, and
   nothing is called once monitor_order has returned. *)
C5_TerminalEnds ==
    [][ /\ (pc = "loop" /\ lastResp' \in {"done", "cancel"}) =>
              /\ pc' = "returned"
              /\ result' = Record(lastResp')
              /\ sleeps' = sleeps
              /\ now' = now
              /\ final_calls' = 0
        /\ (pc = "returned") => (calls' = calls /\ sleeps' = sleeps)
      ]_vars

C5_Witness ==
    Returned /\ lastResp = "cancel" /\ final_calls = 0 /\ result = Record("cancel")
    /\ calls = 3 /\ sleeps = 2

(* C6: k-1 polls answered 'wait' and the k-th 'done', before the deadline:
   the done record is returned after exactly k get_order calls and k-1
   sleeps, each of check_interval. *)
C6_WaitsThenDone ==
    (Returned /\ final_calls = 0 /\ lastResp = "done"
     /\ polled \in {"none_yet", "wait"} /\ calls < CallCap) =>
        /\ result = Record("done")
        /\ sleeps = calls - 1
        /\ all_sleeps_ci
        /\ (sleeps > 0 => retry_delay = check_interval)
        /\ now >= sleeps * check_interval
        /\ now <= sleeps * (check_interval + MaxJitter)

(* wait, wait, done *)
C6_Witness ==
    Returned /\ final_calls = 0 /\ lastResp = "done" /\ polled = "wait"
    /\ calls = 3 /\ sleeps = 2 /\ result = Record("done")

(* C7: monitor_order always returns, with one of done, cancel, error,
   timeout or the record of the last check, and no loop poll is started
   once the elapsed time is at or past the timeout. *)
C7_Terminates ==
    /\ <>(Returned /\ (result.state \in {"done", "cancel", "error", "timeout"}
                       \/ (final_calls = 1 /\ result = Record(lastResp))))
    /\ [][(pc = "loop" /\ pc' # "final") => now < timeout]_vars

(* a monitoring under the default timeout that ran to the deadline *)
C7_Witness ==
    Returned /\ timeout = order_timeout /\ elapsed >= timeout /\ final_calls = 1

(* C34: completed_orders holds an order id only if a poll inside the loop
   saw the order in state 'done'; an order found done by the final check,
   and a cancelled, errored or timed-out order, is not recorded; no id is in
   both pending_orders and completed_orders. *)
C34_CompletedOnlyInLoop ==
    /\ \A o \in completed_orders :
          /\ o = order_id /\ Returned
          /\ final_calls = 0 /\ lastResp = "done" /\ result = Record("done")
    /\ (Returned /\ (final_calls = 1 \/ result.state # "done")) =>
          order_id \notin completed_orders
    /\ pending_orders \cap completed_orders = {}

(* an order found done by the final check after the deadline, not recorded *)
C34_Witness ==
    /\ Returned /\ final_calls = 1 /\ result = Record("done")
    /\ elapsed >= timeout
    /\ order_id \notin completed_orders

(* every get_order call so far answered None or a record without a state *)
AllMalformed ==
    /\ calls > 0
    /\ polled \in {"none_yet", "malformed"}
    /\ lastResp \in Malformed \cup {"none_yet"}

(* C35: the failure counter is reset as soon as get_order returns (the first
   malformed answer leaves it at 1, whatever failures came before), so when
   every poll answers a malformed response the counter never exceeds 1, the
   'error' result is never produced, and monitoring ends only at the
   deadline with state 'timeout'. *)
C35_MalformedNeverCounts ==
    /\ [][(pc = "loop" /\ ~seen_malformed /\ seen_malformed')
            => consecutive_failures' = 1]_vars
    /\ [](AllMalformed =>
            /\ consecutive_failures <= 1
            /\ result # ErrorResult
            /\ Returned => /\ result = TimeoutResult
                           /\ final_calls = 1
                           /\ elapsed >= timeout)

(* a monitoring of malformed answers only, ended by the deadline after more
   polls than the failure ceiling *)
C35_Witness ==
    /\ Returned /\ AllMalformed
    /\ calls > max_failures
    /\ result = TimeoutResult

-----------------------------------------------------------------------------
(* Properties of allocate_capital_dynamically *)

(* the sum of the amounts of a mapping, as a fraction *)
RECURSIVE SumOver(_, _)
SumOver(allocs, ts) ==
    IF ts = {} THEN Amount(0, 1)
    ELSE LET t == CHOOSE x \in ts : TRUE
             rest == SumOver(allocs, ts \ {t})
         IN  Amount(allocs[t].num * rest.den + rest.num * allocs[t].den,
                    allocs[t].den * rest.den)

TotalAllocated == SumOver(allocations, DOMAIN allocations)

(* the computed share of the i-th signal of buy_signals *)
ShareOf(s) ==
    IF s.is_momentum
    THEN momentum_allocation(momentum_capital(available_krw, buy_signals), s,
                             momentum_signals(buy_signals))
    ELSE equal_allocation(regular_capital(available_krw, buy_signals),
                          regular_signals(buy_signals))

SignalsOf(t) == {i \in 1..Len(buy_signals) : buy_signals[i].ticker = t}

(* C9: for a non-empty list of signals (their scores are non-negative)
   the sum of the returned amounts is at most budget * 0.98. *)
C9_SumWithinTradeable ==
    (apc = "returned" /\ buy_signals # <<>>) =>
        TotalAllocated.num <= available_krw * 98 * (Unit \div 100) * TotalAllocated.den

(* three signals of both groups sharing the whole tradeable capital *)
C9_Witness ==
    /\ apc = "returned" /\ Len(buy_signals) = 3
    /\ Cardinality(DOMAIN allocations) = 3
    /\ momentum_signals(buy_signals) # <<>> /\ regular_signals(buy_signals) # <<>>
    /\ TotalAllocated.num = available_krw * 98 * (Unit \div 100) * TotalAllocated.den

(* C10: every returned amount is at least the minimum order size of 5,000
   KRW, and a ticker whose computed shares are all below it is not in the
   mapping. *)
C10_AtLeastMinimum ==
    (apc = "returned") =>
        /\ \A t \in DOMAIN allocations :
              /\ allocations[t].num >= 5 * Unit * allocations[t].den
              /\ \E i \in SignalsOf(t) : allocations[t] = ShareOf(buy_signals[i])
        /\ \A t \in Tickers :
              (\A i \in SignalsOf(t) :
                  ShareOf(buy_signals[i]).num < 5 * Unit * ShareOf(buy_signals[i]).den)
              => t \notin DOMAIN allocations

(* one ticker allocated, another dropped for a positive share below 5,000 *)
C10_Witness ==
    /\ apc = "returned"
    /\ DOMAIN allocations # {}
    /\ \E i \in 1..Len(buy_signals) :
          /\ buy_signals[i].ticker \notin DOMAIN allocations
          /\ ShareOf(buy_signals[i]).num > 0

(* The shares as the specification states them, in 1/10000 of a thousand
   KRW: 98% of the budget is tradeable; 60% of it is the momentum pool and
   40% the regular pool when both groups have signals, else the whole goes
   to the group that has signals. *)
MomentumIdx == {i \in 1..Len(buy_signals) : buy_signals[i].is_momentum}
RegularIdx == {i \in 1..Len(buy_signals) : ~buy_signals[i].is_momentum}

StatedTradeable == available_krw * 98 * 100
StatedMomentumPool ==
    IF MomentumIdx # {} /\ RegularIdx # {} THEN available_krw * 98 * 60
    ELSE IF MomentumIdx # {} THEN StatedTradeable ELSE 0
StatedRegularPool ==
    IF MomentumIdx # {} /\ RegularIdx # {} THEN available_krw * 98 * 40
    ELSE IF RegularIdx # {} THEN StatedTradeable ELSE 0

RECURSIVE ScoreSum(_)
ScoreSum(idx) ==
    IF idx = {} THEN 0
    ELSE LET i == CHOOSE x \in idx : TRUE
         IN  buy_signals[i].momentum_score + ScoreSum(idx \ {i})

StatedShare(i) ==
    IF buy_signals[i].is_momentum
    THEN IF ScoreSum(MomentumIdx) = 0
         THEN Amount(StatedMomentumPool, Cardinality(MomentumIdx))
         ELSE Amount(StatedMomentumPool * buy_signals[i].momentum_score,
                     ScoreSum(MomentumIdx))
    ELSE Amount(StatedRegularPool, Cardinality(RegularIdx))

AtLeastMinimum(a) == a.num >= 5 * Unit * a.den

(* signal j is handled after signal i: the momentum group first, each group
   in list order *)
HandledAfter(i, j) ==
    \/ buy_signals[i].is_momentum /\ ~buy_signals[j].is_momentum
    \/ buy_signals[i].is_momentum = buy_signals[j].is_momentum /\ i < j

LastOf(idx) == CHOOSE i \in idx : \A j \in idx \ {i} : HandledAfter(j, i)

DistinctTickers ==
    \A i, j \in 1..Len(buy_signals) : buy_signals[i].ticker = buy_signals[j].ticker => i = j

TickersOf(idx) == {buy_signals[i].ticker : i \in idx}

SomethingDropped ==
    \E i \in 1..Len(buy_signals) : ~AtLeastMinimum(StatedShare(i))

(* C11: the tradeable capital (98% of the budget) goes 60% to the momentum
   group and 40% to the regular group when both have signals, and whole to
   the only group that has signals: when no share is dropped the amounts of
   each group add up to its pool; budget 1,000,000 with momentum A(20),
   momentum B(20), regular C gives A = 294,000, B = 294,000, C = 392,000. *)
C11_PoolSplit ==
    (apc = "returned" /\ buy_signals # <<>>) =>
        /\ (DistinctTickers /\ ~SomethingDropped) =>
              /\ DOMAIN allocations = TickersOf(1..Len(buy_signals))
              /\ SumOver(allocations, TickersOf(MomentumIdx)) =
                    (IF MomentumIdx = {} THEN Amount(0, 1)
                     ELSE IF RegularIdx = {} THEN Amount(available_krw * 9800, 1)
                     ELSE Amount(available_krw * 5880, 1))
              /\ SumOver(allocations, TickersOf(RegularIdx)) =
                    (IF RegularIdx = {} THEN Amount(0, 1)
                     ELSE IF MomentumIdx = {} THEN Amount(available_krw * 9800, 1)
                     ELSE Amount(available_krw * 3920, 1))
        /\ (/\ available_krw = 1000
            /\ buy_signals =
                 <<[ticker |-> "A", is_momentum |-> TRUE, momentum_score |-> 20],
                   [ticker |-> "B", is_momentum |-> TRUE, momentum_score |-> 20],
                   [ticker |-> "C", is_momentum |-> FALSE, momentum_score |-> 0]>>) =>
              allocations = [t \in {"A", "B", "C"} |->
                               IF t = "C" THEN Amount(392 * Unit, 1)
                               ELSE Amount(294 * Unit, 1)]

(* the example of the claim has been allocated *)
C11_Witness ==
    /\ apc = "returned" /\ available_krw = 1000 /\ Len(buy_signals) = 3
    /\ buy_signals[1] = [ticker |-> "A", is_momentum |-> TRUE, momentum_score |-> 20]
    /\ buy_signals[2] = [ticker |-> "B", is_momentum |-> TRUE, momentum_score |-> 20]
    /\ buy_signals[3] = [ticker |-> "C", is_momentum |-> FALSE, momentum_score |-> 0]
    /\ allocations["C"] = Amount(392 * Unit, 1)

(* the signals of ticker t whose stated share meets the minimum *)
KeptSignalsOf(t) == {i \in SignalsOf(t) : AtLeastMinimum(StatedShare(i))}

(* C12: the share of a momentum signal is momentum pool * score / (sum of
   the scores of the group), so scores 30 and 10 split the pool 3:1; when
   the sum of the scores is 0 it is pool / (number of momentum signals); the
   share of a regular signal is regular pool / (number of regular signals).
   A returned amount is such a share, and a signal that is the only one of
   its ticker gets its share when the share meets the minimum. *)
C12_Shares ==
    (apc = "returned") =>
        /\ \A t \in DOMAIN allocations :
              \E i \in SignalsOf(t) : allocations[t] = StatedShare(i)
        /\ \A i \in 1..Len(buy_signals) :
              (SignalsOf(buy_signals[i].ticker) = {i} /\ AtLeastMinimum(StatedShare(i)))
              => /\ buy_signals[i].ticker \in DOMAIN allocations
                 /\ allocations[buy_signals[i].ticker] = StatedShare(i)
        /\ \A i, j \in MomentumIdx :
              (/\ buy_signals[i].momentum_score = 30 /\ buy_signals[j].momentum_score = 10
               /\ Cardinality(MomentumIdx) = 2
               /\ {buy_signals[i].ticker, buy_signals[j].ticker} \subseteq DOMAIN allocations
               /\ SignalsOf(buy_signals[i].ticker) = {i}
               /\ SignalsOf(buy_signals[j].ticker) = {j})
              => LET x == allocations[buy_signals[i].ticker]
                     y == allocations[buy_signals[j].ticker]
                 IN  x.num * y.den = 3 * y.num * x.den

(* scores 30 and 10 sharing the momentum pool beside a regular signal *)
C12_Witness ==
    /\ apc = "returned" /\ Len(buy_signals) = 3
    /\ Cardinality(DOMAIN allocations) = 3
    /\ \E i, j \in MomentumIdx :
          buy_signals[i].momentum_score = 30 /\ buy_signals[j].momentum_score = 10
    /\ RegularIdx # {}

(* C13, as claimed: when a ticker is dropped for a share below the minimum,
   each returned amount is the amount its ticker would have had if nothing
   had been dropped, which is the share of the last signal of that ticker. *)
C13_AmountAsIfNothingDropped ==
    (apc = "returned" /\ SomethingDropped) =>
        \A t \in DOMAIN allocations :
            allocations[t] = StatedShare(LastOf(SignalsOf(t)))

(* C13, amended: when a share is dropped for being below the minimum, no
   capital is redistributed: each returned amount is the share, computed
   over all the signals of the list, of the last signal of its ticker whose
   share meets the minimum; for a list of distinct tickers it is the amount
   the ticker would have had if nothing had been dropped. *)
C13_NoRedistribution ==
    (apc = "returned" /\ SomethingDropped) =>
        /\ \A t \in DOMAIN allocations :
              /\ KeptSignalsOf(t) # {}
              /\ allocations[t] = StatedShare(LastOf(KeptSignalsOf(t)))
        /\ DistinctTickers =>
              \A t \in DOMAIN allocations :
                  allocations[t] = StatedShare(LastOf(SignalsOf(t)))

(* a ticker is dropped and another keeps its share *)
C13_Witness ==
    /\ apc = "returned" /\ DistinctTickers
    /\ DOMAIN allocations # {}
    /\ \E i \in 1..Len(buy_signals) :
          /\ buy_signals[i].ticker \notin DOMAIN allocations
          /\ StatedShare(i).num > 0

(* C14: the mapping is empty for an empty list of signals; for a non-empty
   list it is empty only when the share of every signal is below the
   minimum order size. *)
C14_EmptyMapping ==
    (apc = "returned") =>
        /\ buy_signals = <<>> => allocations = NoAllocations
        /\ (buy_signals # <<>> /\ DOMAIN allocations = {}) =>
              \A i \in 1..Len(buy_signals) : ~AtLeastMinimum(StatedShare(i))

(* an empty mapping for two signals and a budget above the minimum *)
C14_Witness ==
    /\ apc = "returned" /\ Len(buy_signals) = 2
    /\ available_krw >= 6
    /\ DOMAIN allocations = {}

-----------------------------------------------------------------------------
(* Properties of the risk levels and of the risk monitoring cycle *)

(* the positions whose risk levels were returned in this cycle *)
WithLevels == {i \in 1..Len(risk_levels) : risk_levels[i].defined}

PriceOf(i) == positions[i].current_price * PriceUnit

(* estimated_entry - 2*atr and current_price - 2*atr of position i *)
FixedStopOf(i) == risk_levels[i].estimated_entry - 2 * risk_levels[i].atr
TrailingStopOf(i) == PriceOf(i) - 2 * risk_levels[i].atr

(* current_price > estimated_entry + 1.5*atr *)
TrailingActive(i) ==
    PriceOf(i) > risk_levels[i].estimated_entry + (15 * risk_levels[i].atr) \div 10

(* the stop-loss returned without the trailing stop *)
NonTrailingStopOf(i) == Max(FixedStopOf(i), 0)

(* C15: for every position, ATR and estimated entry, the stop_loss of the
   risk levels returned by calculate_position_risk_levels is >= 0, also
   when estimated_entry - 2*atr is negative. *)
C15_StopLossNotNegative == \A i \in WithLevels : risk_levels[i].stop_loss >= 0

(* levels were returned for a position whose estimated_entry - 2*atr is
   negative and whose trailing stop is not active *)
C15_Witness ==
    \E i \in WithLevels :
        /\ FixedStopOf(i) < 0
        /\ ~TrailingActive(i)
        /\ risk_levels[i].stop_loss = 0

(* C16 as stated: above the activation level the returned stop-loss equals
   max(estimated_entry - 2*atr, current_price - 2*atr); at or below it the
   stop-loss is the non-trailing one. *)
C16_TrailingStopIsTheMaximum ==
    \A i \in WithLevels :
        IF TrailingActive(i)
        THEN risk_levels[i].stop_loss = Max(FixedStopOf(i), TrailingStopOf(i))
        ELSE risk_levels[i].stop_loss = NonTrailingStopOf(i)

(* C16: above the activation level the returned stop-loss equals
   max(estimated_entry - 2*atr, current_price - 2*atr) floored at 0 and is
   never lower than the non-trailing stop-loss; at or below the activation
   level the stop-loss is the non-trailing one. *)
C16_TrailingStop ==
    \A i \in WithLevels :
        IF TrailingActive(i)
        THEN /\ risk_levels[i].stop_loss = Max(Max(FixedStopOf(i), TrailingStopOf(i)), 0)
             /\ risk_levels[i].stop_loss >= NonTrailingStopOf(i)
        ELSE risk_levels[i].stop_loss = NonTrailingStopOf(i)

(* levels were returned with the trailing stop active and above the
   non-trailing stop-loss *)
C16_Witness ==
    \E i \in WithLevels :
        /\ TrailingActive(i)
        /\ risk_levels[i].stop_loss = TrailingStopOf(i)
        /\ risk_levels[i].stop_loss > NonTrailingStopOf(i)

(* the positions the for loop has left *)
PositionsDone ==
    {i \in 1..Len(positions) : i < rcursor \/ rpc \in {"summary", "done"}}

OrdersOf(i, type) ==
    {k \in 1..Len(risk_orders) : risk_orders[k].position = i /\ risk_orders[k].type = type}

StopLossCondition(i) == i \in WithLevels /\ PriceOf(i) <= risk_levels[i].stop_loss
TakeProfitCondition(i) == i \in WithLevels /\ PriceOf(i) >= risk_levels[i].take_profit

(* C17: in monitor_positions the stop-loss condition goes first: a position
   whose price is at or below its stop-loss takes the STOP-LOSS path (its
   free balance is sold as STOP-LOSS, and nothing as TAKE-PROFIT, whatever
   the take-profit condition says and whether or not the order succeeds),
   and a TAKE-PROFIT order is submitted only for a position whose stop-loss
   condition is false and whose take-profit condition is true. *)
C17_StopLossFirst ==
    /\ \A i \in PositionsDone :
          StopLossCondition(i) =>
              /\ OrdersOf(i, "TAKE-PROFIT") = {}
              /\ positions[i].balance > 0 => OrdersOf(i, "STOP-LOSS") # {}
    /\ \A i \in 1..Len(positions) :
          /\ OrdersOf(i, "TAKE-PROFIT") # {} =>
                ~StopLossCondition(i) /\ TakeProfitCondition(i)
          /\ OrdersOf(i, "STOP-LOSS") # {} => StopLossCondition(i)

(* one cycle that submitted a STOP-LOSS order that failed for one position
   and a TAKE-PROFIT order for another *)
C17_Witness ==
    /\ rpc = "done"
    /\ \E i, j \in 1..Len(positions) :
          /\ \E k \in OrdersOf(i, "STOP-LOSS") : ~risk_orders[k].success
          /\ OrdersOf(i, "TAKE-PROFIT") = {}
          /\ OrdersOf(j, "TAKE-PROFIT") # {}

(* the positions one of whose fetches of daily bars raised or gave nothing *)
FetchFailed(i) ==
    fetched[i].atr \in FetchFailures \/ fetched[i].history \in FetchFailures

(* C18 as stated: a failed fetch of the ATR bars or of the price history
   makes the position skipped: no risk levels are produced for it and no
   stop-loss or take-profit order is submitted for it in the cycle. *)
C18_FetchFailureSkipsPosition ==
    \A i \in 1..Len(fetched) :
        FetchFailed(i) =>
            /\ ~risk_levels[i].defined
            /\ OrdersOf(i, "STOP-LOSS") = {}
            /\ OrdersOf(i, "TAKE-PROFIT") = {}

(* C20 as stated: a position for which get_total_portfolio_value yields 0
   still has its stop-loss and take-profit triggers evaluated, that is, its
   risk levels are produced. *)
C20_TriggersWithoutPortfolioValue ==
    \A i \in 1..Len(fetched) :
        fetched[i].portfolio = "failed" => risk_levels[i].defined

(* the orders of a risk cycle that belong to position i *)
RiskOrdersOf(i) == {k \in 1..Len(risk_orders) : risk_orders[k].position = i}

(* C36: in one risk monitoring cycle at most one sell order is submitted per
   position; a position whose stop-loss condition holds gets no take-profit
   order, also when its stop-loss order failed; the returned result has
   orders_executed <= positions_monitored, and every order belongs to one of
   the monitored positions. *)
C36_OneOrderPerPosition ==
    /\ \A k \in 1..Len(risk_orders) : risk_orders[k].position \in 1..Len(positions)
    /\ \A i \in 1..Len(positions) :
          /\ Cardinality(RiskOrdersOf(i)) <= 1
          /\ i \notin PositionsDone /\ i # rcursor => RiskOrdersOf(i) = {}
          /\ StopLossCondition(i) => OrdersOf(i, "TAKE-PROFIT") = {}
    /\ (rpc = "done" /\ positions # <<>>) =>
          /\ risk_result.orders_executed = Len(ExecutedOrders)
          /\ risk_result.positions_monitored = Len(positions)
          /\ risk_result.orders_executed <= risk_result.positions_monitored

(* a finished cycle of two positions: the stop-loss order of one failed and
   nothing else was tried for it, the order of the other was executed *)
C36_Witness ==
    /\ rpc = "done" /\ Len(positions) = 2
    /\ \E i \in 1..2 :
          /\ StopLossCondition(i)
          /\ \E k \in RiskOrdersOf(i) : ~risk_orders[k].success
    /\ risk_result.orders_executed = 1

(* the signals of a kind, and those of them the for loop has left *)
SignalsOfKind(kind) ==
    {i \in 1..Len(pending_signals) : pending_signals[i].signal = kind}

LeftBehind(kind) ==
    IF cursor = 0 THEN SignalsOfKind(kind)
    ELSE {i \in SignalsOfKind(kind) : i < cursor}

(* the buy signals that are executed: those with an allocation *)
Allocated(idx) == {i \in idx : pending_signals[i].ticker \in DOMAIN allocations}

(* the trade cycle: whatever the outcome of a sell or a buy, the signals
   handled so far are the signals of the list before the loop's signal, the
   cycle stops only at its end or at the read of the KRW balance between
   the two loops, and elsewhere it has a next step *)
TradeBatchGoesOn ==
    /\ tpc \in {"sell", "sell_monitor"} => handled = LeftBehind("SELL")
    /\ tpc \in {"buy", "buy_monitor"} =>
          handled = SignalsOfKind("SELL") \cup Allocated(LeftBehind("BUY"))
    /\ tpc = "hold" =>
          handled = SignalsOfKind("SELL") \cup Allocated(SignalsOfKind("BUY"))
                        \cup LeftBehind("HOLD")
    /\ tpc = "done" =>
          handled = SignalsOfKind("SELL") \cup Allocated(SignalsOfKind("BUY"))
                        \cup SignalsOfKind("HOLD")
    /\ tpc = "aborted" => handled = SignalsOfKind("SELL")
    /\ tpc \notin {"idle", "done", "aborted"} => ENABLED TradeNext

(* the risk cycle: whatever happened to a position, the positions handled
   so far are those before the loop's position, and the cycle stops only
   after its summary *)
RiskBatchGoesOn ==
    /\ rpc \in {"idle", "start", "levels", "triggers", "summary", "done"}
    /\ rpc = "levels" => Len(fetched) = rcursor - 1
    /\ rpc = "triggers" => Len(fetched) = rcursor
    /\ rpc \in {"summary", "done"} /\ positions # <<>> =>
          Len(fetched) = Len(positions)
    /\ rpc = "done" /\ positions # <<>> =>
          /\ risk_result.returned /\ ~risk_result.empty
          /\ risk_result.positions_monitored = Len(positions)
    /\ rpc \notin {"idle", "done"} => ENABLED RiskNext

(* C19: a failure while processing one position (risk cycle) or one sell or
   buy signal (trade cycle) never aborts the batch: every later position
   or signal is still processed, in list order, and the cycle goes on to
   its summary step. *)
C19_BatchGoesOn == TradeBatchGoesOn /\ RiskBatchGoesOn

(* a finished trade cycle whose first sell failed and whose later sell and
   buy signals were processed *)
C19_Witness ==
    /\ tpc = "done"
    /\ \E i, j \in SignalsOfKind("SELL"), k \in SignalsOfKind("BUY") :
          /\ i < j
          /\ status[i] = "FAILED"
          /\ {j, k} \subseteq handled
          /\ \E o \in 1..Len(placed) : placed[o].signal = k

(* ATR-percent above 8, position-risk-percent above 10 *)
HighVolatility(i) == risk_levels[i].atr * 100 > 8 * PriceOf(i)
LargePosition(i) == risk_levels[i].position_risk.num > 10 * risk_levels[i].position_risk.den

(* an order of the cycle was executed for position i *)
ExecutedFor(i) == \E k \in 1..Len(risk_orders) :
                      risk_orders[k].position = i /\ risk_orders[k].success

(* C30 as stated: an alert is recorded for every position with computed
   risk levels whose ATR-percent exceeds 8, and for every such position
   whose position-risk-percent exceeds 10. *)
C30_AlertForEveryPosition ==
    \A i \in PositionsDone \cap WithLevels :
        /\ HighVolatility(i) => <<i, "volatility">> \in risk_alerts
        /\ LargePosition(i) => <<i, "position">> \in risk_alerts

(* C30: an alert is recorded for every position with computed risk levels
   for which no order was executed in the cycle, when its ATR-percent
   exceeds 8 and when its position-risk-percent exceeds 10; a position
   whose stop-loss or take-profit order was executed gets no alert; and
   recording an alert never submits an order: a position without trigger
   has no order, alerted or not. *)
C30_AlertsOfUnexecuted ==
    /\ \A i \in PositionsDone \cap WithLevels :
          IF ExecutedFor(i)
          THEN <<i, "volatility">> \notin risk_alerts /\ <<i, "position">> \notin risk_alerts
          ELSE /\ HighVolatility(i) <=> <<i, "volatility">> \in risk_alerts
               /\ LargePosition(i) <=> <<i, "position">> \in risk_alerts
    /\ \A a \in risk_alerts :
          /\ a[1] \in WithLevels /\ ~ExecutedFor(a[1])
          /\ (~StopLossCondition(a[1]) /\ ~TakeProfitCondition(a[1])) =>
                \A k \in 1..Len(risk_orders) : risk_orders[k].position # a[1]

(* a cycle with both alerts for a position without trigger and without
   order, and with no alert for a volatile position that was sold *)
C30_Witness ==
    /\ rpc = "done"
    /\ \E i, j \in WithLevels :
          /\ {<<i, "volatility">>, <<i, "position">>} \subseteq risk_alerts
          /\ ~StopLossCondition(i) /\ ~TakeProfitCondition(i)
          /\ ExecutedFor(j) /\ HighVolatility(j)
          /\ <<j, "volatility">> \notin risk_alerts

(* C25: no sell order is submitted for a ticker whose free balance is zero
   or negative: in the risk cycle no order of the cycle belongs to a
   position without free balance, also when a trigger fired for it, and
   nothing is counted as executed for it; in the trade cycle a sell signal
   marked SKIPPED has returned to the loop without an order. *)
C25_NoSellWithoutBalance ==
    /\ \A k \in 1..Len(risk_orders) : positions[risk_orders[k].position].balance > 0
    /\ \A i \in 1..Len(pending_signals) :
          status[i] = "SKIPPED" =>
              /\ pending_signals[i].signal = "SELL"
              /\ i \in handled
              /\ \A o \in 1..Len(placed) : placed[o].signal # i

(* a trade cycle that marked a sell SKIPPED and went on to place an order
   for a later signal *)
C25_Witness ==
    /\ tpc = "done"
    /\ \E i \in SignalsOfKind("SELL") :
          /\ status[i] = "SKIPPED"
          /\ \E o \in 1..Len(placed) : placed[o].signal > i

-----------------------------------------------------------------------------
(* Properties of the order executor (SpecExec) *)

(* a call that has returned, and one that submitted an order *)
ExecReturned(side) == executor.pc = "returned" /\ executor.call.side = side
Submitted(side) == ExecReturned(side) /\ executor.submitted # <<>>

(* a test-mode sell that read the free balance of the ticker *)
TestSell == Submitted("sell") /\ executor.call.test_mode

(* C21 as stated: in test mode the amount execute_market_sell submits never
   exceeds 5% of the current free balance and never exceeds the requested
   amount. *)
C21_TestSellWithinFivePercent ==
    TestSell =>
        /\ executor.submitted[1] * 100 <= executor.asked.balance.value * 5
        /\ executor.submitted[1] <= executor.call.amount

(* C21: in test mode, with a positive free balance the amount submitted is
   the smaller of 5% of the balance and the requested amount, raised to
   0.0001 coin when it is below; it exceeds 5% of the balance or the
   requested amount only where that floor applies.  With a free balance
   of 0 the requested amount is submitted as it is. *)
C21_TestSellAmount ==
    TestSell =>
        LET b == executor.asked.balance.value
            a == executor.call.amount
            x == executor.submitted[1]
        IN  IF b > 0
            THEN /\ x * 100 = Max(Min(b * 5, a * 100), CoinUnit * 100)
                 /\ x > CoinUnit => (x * 100 <= b * 5 /\ x <= a)
            ELSE x = a

(* a test-mode sell of less than was asked, at 5% of the balance *)
C21_Witness ==
    /\ TestSell
    /\ executor.submitted[1] * 100 = executor.asked.balance.value * 5
    /\ executor.submitted[1] > CoinUnit
    /\ executor.submitted[1] < executor.call.amount

(* C22: in test mode the quote amount execute_market_buy submits is
   min(requested amount, 5,500): at most 5,500 and at most the requested
   amount; outside test mode it is the requested amount. *)
C22_BuyAmount ==
    Submitted("buy") =>
        LET a == executor.call.amount
            x == executor.submitted[1]
        IN  IF executor.call.test_mode
            THEN x = Min(a, 11) /\ x <= 11 /\ x <= a
            ELSE x = a

(* a test-mode buy of more than 5,500 KRW, submitted as 5,500 KRW *)
C22_Witness ==
    /\ Submitted("buy") /\ executor.call.test_mode
    /\ executor.call.amount > 11
    /\ executor.submitted[1] = 11

(* the current price of the ticker could not be resolved *)
PriceUnresolved == executor.asked.price.kind \in {"raise", "none"}

(* C23 as stated: when the current price cannot be resolved, both functions
   return a failure with an error reason and submit no order. *)
C23_NoPriceNoOrder ==
    (executor.pc = "returned" /\ PriceUnresolved) =>
        /\ ~executor.result.success
        /\ executor.result.error # "absent"
        /\ executor.submitted = <<>>

(* C24: execute_market_buy and execute_market_sell always return a result;
   success is true exactly when the exchange answered the order with an
   order identifier, and the result then carries the order, the price
   estimate and the estimated amount; an answer that is empty or without
   identifier, and an exception of the exchange call, give success = false
   with an error reason. *)
C24_StructuredResult ==
    executor.pc = "returned" =>
        LET r == executor.result
        IN  /\ r.returned
            /\ r.success <=> executor.asked.order.kind = "uuid"
            /\ r.success =>
                  /\ r.order = "uuid"
                  /\ r.executed_price # "absent"
                  /\ r.executed_amount = executor.submitted[1]
                  /\ r.error = "absent"
            /\ ~r.success => r.error # "absent" /\ r.order = "absent"

(* the exchange answered an order without an identifier *)
C24_Witness ==
    /\ executor.pc = "returned"
    /\ executor.asked.order.kind = "no_uuid"
    /\ ~executor.result.success
    /\ executor.submitted # <<>>

-----------------------------------------------------------------------------
(* Properties of the retried calls and of the batch wait (SpecCalls) *)

RetryRunning == retry.pc \in {"called", "returned"}
CallsIn(log) == {k \in 1..Len(log) : log[k].ev = "call"}
PausesIn(log) == {k \in 1..Len(log) : log[k].ev = "sleep"}

(* C26: cancel_order and get_order_status call the exchange at most 3
   times and stop at the first call that returns; they pause 1 second
   between two attempts, so twice at most and never after the last attempt;
   after 3 failed calls they return False, respectively a record with
   state 'unknown'. *)
C26_BoundedRetry ==
    RetryRunning =>
        LET log == retry.log
        IN  /\ Cardinality(CallsIn(log)) <= 3
            /\ Cardinality(PausesIn(log)) <= 2
            /\ \A k \in 1..Len(log) :
                  /\ log[k].ev = (IF k % 2 = 1 THEN "call" ELSE "sleep")
                  /\ log[k].ev = "sleep" => log[k].secs = 1
                  /\ (log[k].ev = "call" /\ k < Len(log)) => log[k].answer = "raise"
            /\ retry.pc = "returned" =>
                  /\ log # <<>> /\ log[Len(log)].ev = "call"
                  /\ IF log[Len(log)].answer = "raise"
                     THEN /\ Cardinality(CallsIn(log)) = 3
                          /\ retry.result = (IF retry.op = "cancel" THEN "False"
                                             ELSE "unknown")
                     ELSE retry.result = (IF retry.op = "cancel" THEN "True"
                                          ELSE log[Len(log)].answer)

(* three failed calls with two pauses, answered by the fallback *)
C26_Witness ==
    /\ retry.pc = "returned"
    /\ Cardinality(CallsIn(retry.log)) = 3
    /\ Cardinality(PausesIn(retry.log)) = 2
    /\ retry.result \in {"False", "unknown"}

BatchRunning == batch.pc \in {"called", "returned"}

(* the orders with a uuid before position i of the list *)
UuidsBefore(i) == {j \in 1..(i - 1) : batch.orders[j] # NoUuid}

(* the orders are monitored one after another in list order *)
BatchInListOrder ==
    \A k \in 1..Len(batch.handed) :
        /\ batch.orders[batch.handed[k].index] = batch.handed[k].order_id
        /\ Cardinality(UuidsBefore(batch.handed[k].index)) = k - 1
        /\ k > 1 => batch.handed[k].elapsed >= batch.handed[k - 1].elapsed

(* per-order timeouts never increase along the list *)
BatchNeverIncreases ==
    \A k \in 2..Len(batch.handed) :
        batch.handed[k].timeout <= batch.handed[k - 1].timeout

(* C27 as stated: the timeout handed to each order's monitoring equals the
   total timeout minus the time elapsed since the batch started, and never
   exceeds what remains of the shared deadline. *)
C27_HandedTheRemainder ==
    BatchRunning =>
        /\ BatchInListOrder
        /\ BatchNeverIncreases
        /\ \A k \in 1..Len(batch.handed) :
              batch.handed[k].timeout = batch.timeout - batch.handed[k].elapsed

(* C27: the orders are monitored one after another in list order; the
   timeout handed to each equals the total timeout minus the time elapsed
   since the batch started, but at least 1 second; so per-order timeouts
   never increase along the list, and one exceeds what remains of the
   shared deadline only when less than 1 second remains, being then
   1 second. *)
C27_RemainderOrOneSecond ==
    BatchRunning =>
        /\ BatchInListOrder
        /\ BatchNeverIncreases
        /\ \A k \in 1..Len(batch.handed) :
              LET left == batch.timeout - batch.handed[k].elapsed
              IN  /\ batch.handed[k].timeout = Max(left, 2)
                  /\ left >= 2 => batch.handed[k].timeout <= left

(* a batch of three monitored orders whose timeouts went down to the
   1 second floor after the deadline *)
C27_Witness ==
    /\ batch.pc = "returned"
    /\ Len(batch.handed) = 3
    /\ batch.handed[1].timeout > batch.handed[2].timeout
    /\ batch.handed[3].elapsed > batch.timeout
    /\ batch.handed[3].timeout = 2

-----------------------------------------------------------------------------
(* Properties of calculate_atr (SpecAtr) *)

AtrReturned == atr_calc.pc = "returned" /\ atr_calc.df.kind = "data"
BarCount == Len(atr_calc.df.bars)

(* C28 as stated, for calculate_atr: with fewer than period+1 daily bars,
   in particular with exactly `period` bars, the result is 0. *)
C28_ZeroBelowPeriodPlusOne ==
    (AtrReturned /\ BarCount < atr_calc.period + 1) =>
        atr_calc.result.atr.num = 0

(* max(high-low, |high-prevClose|, |low-prevClose|) of bar k > 1 *)
StatedTrueRange(k) ==
    LET b == atr_calc.df.bars[k]
        prevClose == atr_calc.df.bars[k - 1].close
        up == IF b.high >= prevClose THEN b.high - prevClose ELSE prevClose - b.high
        down == IF b.low >= prevClose THEN b.low - prevClose ELSE prevClose - b.low
    IN  Max(b.high - b.low, Max(up, down))

RECURSIVE StatedSum(_)
StatedSum(idx) ==
    IF idx = {} THEN 0
    ELSE LET k == CHOOSE x \in idx : TRUE
         IN  StatedTrueRange(k) + StatedSum(idx \ {k})

(* C29: for every price history with at least period+1 bars, calculate_atr
   returns a value >= 0 that is the arithmetic mean of the True Range
   max(high-low, |high-prevClose|, |low-prevClose|) of the most recent
   `period` bars. *)
C29_MeanOfTrueRange ==
    (AtrReturned /\ BarCount >= atr_calc.period + 1) =>
        LET atr == atr_calc.result.atr
            last == (BarCount - atr_calc.period + 1)..BarCount
        IN  /\ atr.num >= 0 /\ atr.den > 0
            /\ atr.num * atr_calc.period = StatedSum(last) * atr.den

(* an ATR over bars one of whose true ranges is the gap to the previous
   close and not the bar's own range *)
C29_Witness ==
    /\ AtrReturned /\ BarCount >= atr_calc.period + 1
    /\ atr_calc.result.atr.num > 0
    /\ \E k \in (BarCount - atr_calc.period + 1)..BarCount :
          StatedTrueRange(k) > atr_calc.df.bars[k].high - atr_calc.df.bars[k].low

-----------------------------------------------------------------------------
(* Properties of a signal and its monitored order (SpecSignal) *)

(* C31: a signal whose order was accepted is set to IN_PROGRESS before
   monitor_order is called, and the function returns only after
   monitor_order has returned, with the status set to DONE when the returned
   state is 'done' and to FAILED for every other returned state; a status
   update that succeeds never leaves IN_PROGRESS behind. *)
C31_StepOk ==
    /\ (tpc \notin Monitoring /\ tpc' \in Monitoring)
          => /\ status'[cursor] \in {"IN_PROGRESS", status[cursor]}
             /\ order_id' # Len(placed')
    /\ (tpc \in Monitoring /\ tpc' \notin Monitoring)
          => /\ pc = "returned" /\ order_id = Len(placed)
             /\ status'[cursor] \in {status[cursor],
                                     IF result.state = "done" THEN "DONE" ELSE "FAILED"}
             /\ status'[cursor] # status[cursor] => status'[cursor] # "IN_PROGRESS"

C31_StatusFollowsMonitor == [][C31_StepOk]_vars

(* an accepted order whose monitoring ended at the deadline with a record
   still open, and whose signal is FAILED *)
C31_Witness ==
    /\ pc = "returned" /\ result = Record("wait")
    /\ monitored # {}
    /\ \E i \in handled : status[i] = "FAILED" /\ placed[Len(placed)].signal = i

-----------------------------------------------------------------------------
(* Properties of a risk order and the executor (SpecRiskOrder) *)

(* C37: the amount a risk order passes to the executor is the free balance
   of the position (never more: the locked part is not sold), or in test
   mode of the risk manager min(free balance, 0.001); no order is sent for a
   position without free balance; and in test mode of the risk manager the
   amount submitted to the exchange is at most 0.001, whatever TEST_MODE of
   the executor says. *)
C37_RiskOrderAmount ==
    /\ executor.pc \in {"called", "returned"} =>
          /\ executor.risk.balance > 0
          /\ executor.call.amount <= executor.risk.balance
          /\ executor.risk.test_mode =>
                executor.call.amount = Min(executor.risk.balance, 10 * CoinUnit)
          /\ ~executor.risk.test_mode => executor.call.amount = executor.risk.balance
    /\ executor.pc = "not_called" =>
          executor.risk.balance = 0 /\ executor.submitted = <<>>
    /\ (executor.risk.test_mode /\ executor.submitted # <<>>) =>
          executor.submitted[1] <= 10 * CoinUnit

(* a position with a locked part and a free balance above 0.001, sold in
   test mode of the risk manager by an executor outside test mode *)
C37_Witness ==
    /\ executor.pc = "returned"
    /\ executor.risk.test_mode /\ ~executor.call.test_mode
    /\ executor.risk.locked > 0 /\ executor.risk.balance > 10 * CoinUnit
    /\ executor.submitted = <<10 * CoinUnit>>

-----------------------------------------------------------------------------
(* Properties of the scheduled job (SpecScheduler) *)

Handled == {"failed", "completed", "status_sent"}

(* C38: a risk monitoring cycle that finds no held positions returns an
   empty result, not a result with zero counts; the scheduler logs that
   cycle as failed and sends no status update for it, whereas a cycle with
   positions is logged as completed whatever its counts. *)
C38_EmptyCycleLoggedAsFailed ==
    /\ (positions = <<>> /\ rpc \in Handled \cup {"done"}) =>
          /\ risk_result.returned /\ risk_result.empty
          /\ DOMAIN risk_result = {"returned", "empty"}
          /\ rpc \notin {"completed", "status_sent"}
    /\ (positions # <<>> /\ rpc \in Handled) =>
          /\ ~risk_result.empty
          /\ rpc \in {"completed", "status_sent"}

(* the job has handled a cycle without positions *)
C38_Witness ==
    /\ positions = <<>>
    /\ rpc = "failed"
    /\ risk_result.empty

-----------------------------------------------------------------------------
(* Properties of the trade cycle *)


SellSignals == {i \in 1..Len(pending_signals) : pending_signals[i].signal = "SELL"}

(* the KRW balance has been read for the allocation *)
BalanceRead == tpc \in {"buy", "buy_monitor", "hold", "done"}

(* the BUY signals whose ticker has no amount in the allocation mapping *)
Unallocated ==
    {i \in SignalsOfKind("BUY") : pending_signals[i].ticker \notin DOMAIN allocations}

OrderedSignals == {placed[n].signal : n \in 1..Len(placed)}

(* C33: once the allocation is made, a pending BUY signal whose ticker is
   absent from the mapping gets no order and no status update and is still
   PENDING when the cycle ends; every SELL and every HOLD signal of a cycle
   that reaches its end has been passed to its status update, and a status
   that changes never changes to PENDING and belongs to a SELL, a HOLD or an
   allocated BUY signal. *)
C33_StateOk ==
    /\ BalanceRead =>
          \A i \in Unallocated :
              status[i] = "PENDING" /\ i \notin handled /\ i \notin OrderedSignals
    /\ tpc = "done" =>
          SignalsOfKind("SELL") \cup SignalsOfKind("HOLD") \subseteq handled

C33_StepOk ==
    \A i \in 1..Len(pending_signals) :
        status'[i] # status[i] =>
            /\ status'[i] # "PENDING"
            /\ i = cursor
            /\ pending_signals[i].signal = "BUY" =>
                  pending_signals[i].ticker \in DOMAIN allocations

C33_UnallocatedBuyStaysPending == []C33_StateOk /\ [][C33_StepOk]_vars

(* a finished cycle with a BUY signal left PENDING for want of an allocation,
   a SELL signal that was skipped and a HOLD signal set to DONE *)
C33_Witness ==
    /\ tpc = "done"
    /\ \E i \in Unallocated : status[i] = "PENDING"
    /\ \E i \in SignalsOfKind("SELL") : status[i] = "SKIPPED"
    /\ \E i \in SignalsOfKind("HOLD") : status[i] = "DONE"

(* C33 as stated: when the cycle ends every SELL and HOLD signal has left
   the PENDING status *)
C33_SellAndHoldLeavePending ==
    tpc \in {"done", "aborted"} =>
        \A i \in SignalsOfKind("SELL") \cup SignalsOfKind("HOLD") : status[i] # "PENDING"

(* the sum of the amounts of the buy orders among the first n orders sent to
   the exchange: each is ordered with allocations[ticker] (line 696) *)
RECURSIVE BuyOrdersSum(_)
BuyOrdersSum(n) ==
    IF n = 0 THEN Amount(0, 1)
    ELSE LET rest == BuyOrdersSum(n - 1)
             a == allocations[pending_signals[placed[n].signal].ticker]
         IN  IF placed[n].side = "buy"
             THEN Amount(a.num * rest.den + rest.num * a.den, a.den * rest.den)
             ELSE rest

(* C32: the sum of the quote amounts of all buy orders submitted in one trade
   cycle is at most 98% of the balance read after the sells finished,
   whatever the list of pending BUY signals. *)
C32_BuyOrdersWithinTradeable ==
    BalanceRead =>
        BuyOrdersSum(Len(placed)).num
            <= available_krw * 98 * (Unit \div 100) * BuyOrdersSum(Len(placed)).den

(* C8: every SELL signal of the cycle has been handled, and every sell
   order monitored to a returned result, before the KRW balance is read and
   before any buy order is placed; no buy order is placed between two sell
   orders. *)
C8_SellsBeforeBuys ==
    /\ (BalanceRead \/ \E k \in 1..Len(placed) : placed[k].side = "buy") =>
          /\ SellSignals \subseteq handled
          /\ \A k \in 1..Len(placed) :
                (placed[k].side = "sell" /\ placed[k].accepted) => k \in monitored
          /\ tpc # "sell" /\ tpc # "sell_monitor"
    /\ \A j, k \in 1..Len(placed) :
          (j < k /\ placed[j].side = "buy") => placed[k].side = "buy"

(* two sell orders, then a buy order *)
C8_Witness ==
    /\ Len(placed) = 3
    /\ placed[1].side = "sell" /\ placed[2].side = "sell" /\ placed[3].side = "buy"
    /\ placed[1].accepted /\ placed[2].accepted
=============================================================================
